---------------------------- MODULE Spec2Model ----------------------------
(***************************************************************************)
(* Barus storage core: write-ahead log, memtable manager, flush bridge and *)
(* disk table, modelled as one state machine.                              *)
(*                                                                         *)
(* Files survive a Crash; everything else is rebuilt by Initialize.        *)
(* Strings of the model's alphabets (table names, keys, values) are one    *)
(* byte long, so the byte arithmetic of the WAL frames is the code's.      *)
(***************************************************************************)
EXTENDS Integers, Sequences, FiniteSets, TLC

(***************************************************************************)
(* Bounds of the model.                                                    *)
(***************************************************************************)
MaxRecords == 3         \* WALManager::append calls over a run of the WAL alone
MaxPuts == 2            \* put_value / delete_value calls over a run of the engine
MaxFlushes == 2        \* trigger_flush calls that win the compare-and-swap
MaxCrashes == 2         \* crashes over a run of the WAL alone
MaxRestarts == 1        \* crashes over a run of the engine
MaxRounds == 3          \* memtable generations written over a run of the disk table alone
WAL_SEGMENT_SIZE == 75 \* bytes of one WAL segment file (scaled down)
HARD_LIMIT == 3        \* memtable_size_hard_limit, bytes (scaled down)

WAL_RECORD_HEADER_SIZE == 4

Tables == {"t"}
Keys == {"a", "b"}
Values == {"x", "y"}
None == "none"          \* Option::None: a tombstone, or a Delete's value
NoFile == [exists |-> FALSE]      \* a path that does not exist

ByteLen(s) ==           \* str::len: the key "L" stands for a long key
    IF s = "L" THEN 4090 ELSE 1

SegIds == 0 .. MaxRecords

Max(S) == CHOOSE x \in S : \A y \in S : y <= x
Min(S) == CHOOSE x \in S : \A y \in S : x <= y
Last(s) == s[Len(s)]

(***************************************************************************)
(* WAL records and their codec.                                            *)
(***************************************************************************)
WALRecord(id, type, table, key, value) ==
    [record_id |-> id, record_type |-> type, table |-> table, key |-> key,
     value |-> value]

\* WALPayload::size
PayloadSize(r) ==
    8 + ByteLen(r.table) + 8 + ByteLen(r.key) + 8 +
    (IF r.value = None THEN 0 ELSE ByteLen(r.value))

\* WALRecord::size
RecordSize(r) == 8 + 1 + PayloadSize(r)

\* The fields bincode writes, in order, with fixed-width little-endian
\* integers: record_id u64, the enum variant u32, each String as u64 length
\* and bytes, the Option as one tag byte and, when Some, the String.
EncodedFields(r) ==
    <<8, 4, 8, ByteLen(r.table), 8, ByteLen(r.key), 1>> \o
    (IF r.value = None THEN <<>> ELSE <<8, ByteLen(r.value)>>)

RECURSIVE SumSeq(_)
SumSeq(s) == IF s = <<>> THEN 0 ELSE Head(s) + SumSeq(Tail(s))

EncodedLen(r) == SumSeq(EncodedFields(r))

\* Bytes a failing encode_into_slice leaves behind: every field is written
\* whole or not at all, and the first field that does not fit ends the write.
RECURSIVE WrittenBeforeFailure(_, _)
WrittenBeforeFailure(fields, room) ==
    IF fields = <<>> \/ Head(fields) > room THEN 0
    ELSE Head(fields) + WrittenBeforeFailure(Tail(fields), room - Head(fields))

\* A faulty variant of Encode: the slice's end is not checked.
EncodeUnchecked(r, room) == [ok |-> TRUE, len |-> EncodedLen(r)]

\* WALRecordBincodeCodec::encode into a slice of `room` bytes.
Encode(r, room) ==
    IF EncodedLen(r) <= room
    THEN [ok |-> TRUE, len |-> EncodedLen(r)]
    ELSE [ok |-> FALSE, len |-> WrittenBeforeFailure(EncodedFields(r), room)]

(***************************************************************************)
(* A WAL segment file: WAL_SEGMENT_SIZE bytes, zero-filled at creation.    *)
(* frames: the frames whose bytes are all as written, [off, len, rec], len *)
(* the payload length.  junk: extents [off, len, hdr] of non-zero bytes    *)
(* that are not part of such a frame (what a failed encode wrote, the rest *)
(* of a frame another write ran over); hdr is the payload length announced *)
(* by the four bytes at off when they are still a frame's header, and 0    *)
(* otherwise.  Every other byte is zero.                                   *)
(***************************************************************************)
EmptyFile == [frames |-> {}, junk |-> {}]

FrameEnd(f) == f.off + WAL_RECORD_HEADER_SIZE + f.len
Overlap(lo1, hi1, lo2, hi2) == lo1 < hi2 /\ lo2 < hi1

\* What is left of the extent [lo, hi), whose first bytes announce hdr, once
\* [wlo, whi) is overwritten.
Remains(lo, hi, hdr, wlo, whi) ==
    (IF lo < wlo
     THEN {[off |-> lo, len |-> Min({hi, wlo}) - lo,
            hdr |-> IF Min({hi, wlo}) - lo >= WAL_RECORD_HEADER_SIZE THEN hdr ELSE 0]}
     ELSE {}) \cup
    (IF whi < hi
     THEN {[off |-> Max({lo, whi}), len |-> hi - Max({lo, whi}),
            hdr |-> IF whi <= lo THEN hdr ELSE 0]}
     ELSE {})

\* The file after the bytes [wlo, whi) are overwritten with something else.
Overwrite(file, wlo, whi) ==
    LET hit == {f \in file.frames : Overlap(f.off, FrameEnd(f), wlo, whi)}
    IN [frames |-> file.frames \ hit,
        junk |-> UNION {Remains(j.off, j.off + j.len, j.hdr, wlo, whi) : j \in file.junk}
                 \cup UNION {Remains(f.off, FrameEnd(f), f.len, wlo, whi) : f \in hit}]

\* A frame written whole: header at off, payload after it.
WriteFrame(file, off, len, rec) ==
    LET o == Overwrite(file, off, off + WAL_RECORD_HEADER_SIZE + len)
    IN [o EXCEPT !.frames = @ \cup {[off |-> off, len |-> len, rec |-> rec]}]

\* A failed encode: `len` payload bytes written, the header left as it was.
WriteJunk(file, off, len) ==
    IF len = 0 THEN file
    ELSE LET o == Overwrite(file, off + WAL_RECORD_HEADER_SIZE,
                            off + WAL_RECORD_HEADER_SIZE + len)
         IN [o EXCEPT !.junk = @ \cup {[off |-> off + WAL_RECORD_HEADER_SIZE,
                                         len |-> len, hdr |-> 0]}]

NonZero(file, lo, hi) ==
    \/ \E f \in file.frames : Overlap(f.off, FrameEnd(f), lo, hi)
    \/ \E j \in file.junk : Overlap(j.off, j.off + j.len, lo, hi)

\* WALManager::scan_records: the set of results (records, offset) the scan
\* can return.  A header of zeros ends it.  A frame whose payload was run
\* over keeps its header: the payload fails to decode and the scan goes on
\* after it.  A header read from other junk holds whatever bytes are there:
\* the scan ends at it (the bytes read as zero) or four bytes later (the
\* payload they announce runs past the file's end).
RECURSIVE ScanFrom(_, _, _)
ScanFrom(file, offset, records) ==
    IF offset + WAL_RECORD_HEADER_SIZE > WAL_SEGMENT_SIZE
    THEN {[records |-> records, offset |-> offset]}
    ELSE IF \E f \in file.frames : f.off = offset
    THEN LET f == CHOOSE g \in file.frames : g.off = offset
         IN ScanFrom(file, FrameEnd(f), Append(records, f.rec))
    ELSE IF \E j \in file.junk : j.off = offset /\ j.hdr > 0
    THEN LET j == CHOOSE g \in file.junk : g.off = offset /\ g.hdr > 0
         IN ScanFrom(file, offset + WAL_RECORD_HEADER_SIZE + j.hdr, records)
    ELSE IF NonZero(file, offset, offset + WAL_RECORD_HEADER_SIZE)
    THEN {[records |-> records, offset |-> offset],
          [records |-> records, offset |-> offset + WAL_RECORD_HEADER_SIZE]}
    ELSE {[records |-> records, offset |-> offset]}

scan_records(file) == ScanFrom(file, 0, <<>>)


(***************************************************************************)
(* State.                                                                  *)
(***************************************************************************)
VARIABLES
    \* files under base_path: they survive a crash
    state_file,             \* wal_state.json: the WALGlobalState last saved
    wal_files,              \* wal/<segment id>: a segment file, or NoFile
    disk_records,           \* tables/<table>/segments: the record frames
    disk_index,             \* tables/<table>/indices: the leaf entries
    btree_index,            \* tables/<table>/indices: index.btree and index.metadata
    tree_run,               \* bookkeeping of the inserts made, read by no handler
    write_tasks,            \* tasks inside write_node: position and locals
    try_lock,               \* a TryLock, the tasks that share it and the value it guards
    table_segment,          \* TableSegmentManager: the segment files and their state
    \* WALManager
    wal_state,              \* WALGlobalState
    mapped,                 \* wal_write_handles: id of the mapped segment
    \* MemtableManager
    memtables,              \* the HashMemtable objects, by allocation number
    memtable_map,           \* table -> active memtable
    flushing_memtable_map,  \* table -> flushing memtable
    flushing_lock,          \* holder of flushing_memtable_map's write lock
    memtable_current_size,
    block_write,
    channel,                \* memtable_flush_sender / receiver, capacity 1
    \* tasks
    pc, local,              \* client threads: position and locals
    bridge,                 \* the flush task: position and the event held
    \* the run
    up,                     \* the process is running
    run                     \* bookkeeping of the run, read by no handler

wal_vars == <<state_file, wal_files, wal_state, mapped>>
disk_vars == <<disk_records, disk_index, btree_index, tree_run, write_tasks,
               try_lock, table_segment>>
mem_vars == <<memtables, memtable_map, flushing_memtable_map, flushing_lock,
              memtable_current_size, block_write, channel>>
vars == <<state_file, wal_files, disk_records, disk_index, wal_state, mapped,
          memtables, memtable_map, flushing_memtable_map, flushing_lock,
          memtable_current_size, block_write, channel, pc, local, bridge,
          up, run, btree_index, tree_run, write_tasks, try_lock, table_segment>>

Writers == {"w1"}       \* clients calling put_value / delete_value
Admins == {"adm"}       \* clients calling trigger_memtable_flush, flush_wal, get_value
WALClients == {"w1", "w2"}  \* callers of WALManager::append, the WAL alone
Threads == Writers \cup Admins \cup WALClients

\* WALGlobalState::default
DefaultWALState ==
    [last_record_id |-> 0, last_checkpoint_record_id |-> 0,
     last_segment_id |-> 0, last_checkpoint_segment_id |-> 0,
     last_segment_file_offset |-> 0]

\* WALManager::list_segment_files: the existing segments, sorted by name
\* (16 upper-case hex digits, so by id).
list_segment_files(files) == {s \in SegIds : files[s] # NoFile}

(***************************************************************************)
(* WALManager::append.                                                     *)
(***************************************************************************)
\* A faulty variant of NeedNewSegment: the test is made with >= .
NeedNewSegmentGe(ws, r) ==
    ws.last_segment_file_offset + RecordSize(r) >= WAL_SEGMENT_SIZE

NeedNewSegment(ws, r) ==
    ws.last_segment_file_offset + RecordSize(r) > WAL_SEGMENT_SIZE

\* A faulty variant of NewRecordId: the id of the last record is given again.
NewRecordIdSame(ws) == ws.last_record_id

NewRecordId(ws) == ws.last_record_id + 1

\* WALManager::new_segment_file: the state and the files after it; the new
\* file is opened with create and truncate and zero-filled.
new_segment_file(ws, files) ==
    LET id == ws.last_segment_id + 1
    IN [wal_state |-> [ws EXCEPT !.last_segment_id = id,
                                  !.last_segment_file_offset = 0],
        wal_files |-> [files EXCEPT ![id] = EmptyFile],
        mapped |-> id]

\* append, lines 287-311, for the record r (record_id not yet assigned) in
\* the state ws with the segment m mapped: the outcome and what it leaves.
append_write(ws, files, m, r) ==
    LET payload_start_offset == ws.last_segment_file_offset + WAL_RECORD_HEADER_SIZE
        rec == [r EXCEPT !.record_id = NewRecordId(ws)]
        enc == Encode(rec, WAL_SEGMENT_SIZE - payload_start_offset)
    IN IF enc.ok
       THEN [ok |-> TRUE, rec |-> rec,
             wal_state |-> [ws EXCEPT
                 !.last_record_id = rec.record_id,
                 !.last_segment_file_offset = @ + enc.len + WAL_RECORD_HEADER_SIZE],
             wal_files |-> IF files[m] = NoFile THEN files
                           ELSE [files EXCEPT ![m] =
                 WriteFrame(@, ws.last_segment_file_offset, enc.len, rec)]]
       ELSE [ok |-> FALSE, rec |-> rec,
             wal_state |-> ws,
             wal_files |-> IF files[m] = NoFile THEN files
                           ELSE [files EXCEPT ![m] =
                 WriteJunk(@, ws.last_segment_file_offset, enc.len)]]

(***************************************************************************)
(* WALManager::load and recover_state.                                     *)
(***************************************************************************)
\* A faulty variant of SegmentToScan: the first segment file is scanned.
SegmentToScanFirst(files) == Min(list_segment_files(files))

\* recover_state scans segment_files.last().
SegmentToScan(files) == Max(list_segment_files(files))

\* A faulty variant of recover_state: the scanned offset is added to the
\* offset the state file held.
recover_state_adding(ws, files) ==
    IF list_segment_files(files) = {} THEN {ws}
    ELSE {[ws EXCEPT
              !.last_segment_file_offset = @ + res.offset,
              !.last_record_id = IF res.records # <<>>
                                 THEN Last(res.records).record_id ELSE @]
          : res \in scan_records(files[SegmentToScan(files)])}

\* recover_state: the states it can leave, from the loaded state ws.
recover_state(ws, files) ==
    IF list_segment_files(files) = {} THEN {ws}
    ELSE {[ws EXCEPT
              !.last_segment_file_offset = res.offset,
              !.last_record_id = IF res.records # <<>>
                                 THEN Last(res.records).record_id ELSE @]
          : res \in scan_records(files[SegmentToScan(files)])}

\* get_current_segment_file_name: the file load maps for writing.
get_current_segment_file_name(ws) == ws.last_segment_id


(***************************************************************************)
(* HashMemtable: a map from the keys it holds to Some(value) or None.      *)
(***************************************************************************)
EmptyMap == [k \in {} |-> None]
NotFound == "NotFound"
Deleted == "Deleted"

\* HashMemtable::new
HashMemtableNew == EmptyMap

\* HashMemtable::put: the table after it
HashMemtablePut(table, key, value) ==
    [k \in DOMAIN table \cup {key} |-> IF k = key THEN value ELSE table[k]]

\* HashMemtable::put returns Some(previous value's length) if the key was held
HashMemtablePutOld(table, key) ==
    IF key \in DOMAIN table
    THEN (IF table[key] = None THEN 0 ELSE ByteLen(table[key]))
    ELSE -1

\* A faulty variant of HashMemtableDelete: a key the table does not hold gets no
\* tombstone.
HashMemtableDeleteHeldOnly(table, key) ==
    [k \in DOMAIN table |-> IF k = key THEN None ELSE table[k]]

\* HashMemtable::delete: a tombstone, also for a key the table did not hold
HashMemtableDelete(table, key) ==
    [k \in DOMAIN table \cup {key} |-> IF k = key THEN None ELSE table[k]]

\* HashMemtable::get
HashMemtableGet(table, key) ==
    IF key \notin DOMAIN table THEN NotFound
    ELSE IF table[key] = None THEN Deleted
    ELSE table[key]

(***************************************************************************)
(* Disk table of one table: the record frames in the order append_record   *)
(* wrote them (a position is an index into them) and the index, one leaf   *)
(* of entries [key, position] in key order.                                *)
(***************************************************************************)
KeyRank(k) ==           \* str::cmp on the keys
    IF k = "L" THEN 0 ELSE IF k = "a" THEN 1 ELSE IF k = "b" THEN 2
    ELSE IF k = "c" THEN 3 ELSE IF k = "d" THEN 4 ELSE IF k = "e" THEN 5
    ELSE 6

\* BTreeIndex::find, find_in_node on a leaf: the first entry with the key
IndexFind(leaf, key) ==
    IF \E i \in 1 .. Len(leaf) : leaf[i].key = key
    THEN leaf[Min({i \in 1 .. Len(leaf) : leaf[i].key = key})].position
    ELSE 0

\* insert_into_node on a leaf: binary_search_by gives the place of an entry
\* with the key (any of them, if several hold it), or else the place that
\* keeps the entries sorted; the new entry is inserted there.
InsertPlaces(leaf, key) ==
    IF \E i \in 1 .. Len(leaf) : leaf[i].key = key
    THEN {i \in 1 .. Len(leaf) : leaf[i].key = key}
    ELSE {Cardinality({i \in 1 .. Len(leaf) : KeyRank(leaf[i].key) < KeyRank(key)}) + 1}

InsertAt(seq, i, e) == SubSeq(seq, 1, i - 1) \o <<e>> \o SubSeq(seq, i, Len(seq))

\* TableSegmentManager::mark_deleted_record
mark_deleted_record(records, position) ==
    [records EXCEPT ![position].flag = Deleted]

(***************************************************************************)
(* BTreeIndex: the index of one table, as nodes in NODE_SIZE blocks of the *)
(* index file, with its metadata in memory and in the metadata file.       *)
(* ix = [metadata, metadata_file, blocks].                                 *)
(***************************************************************************)
NODE_SIZE == 8192
ORDER == 4              \* BTreeMetadata.order; the default is 64
NoPosition == -1        \* Option<BTreeNodePosition>::None
ZeroBlock == [node_type |-> "Zero"]     \* a block never written: zeros
\* blocks of a damaged file: a declared size over 10 MB, a declared size
\* that runs past the end of the file, and bytes that do not decode
HugeBlock == [node_type |-> "Huge"]
BeyondBlock == [node_type |-> "Beyond"]
GarbageBlock == [node_type |-> "Garbage"]
NoMetadataFile == [exists |-> FALSE]            \* no index.metadata
GarbageMetadata == [exists |-> TRUE, decodes |-> FALSE]

BTreeMetadataDefault ==
    [root_position |-> NoPosition, order |-> ORDER, next_offset |-> 0]

new_leaf ==
    [node_type |-> "Leaf", parent |-> NoPosition, leaf_entries |-> <<>>,
     internal_entries |-> <<>>, leftmost_child |-> NoPosition]

new_internal ==
    [node_type |-> "Internal", parent |-> NoPosition, leaf_entries |-> <<>>,
     internal_entries |-> <<>>, leftmost_child |-> NoPosition]

\* BTreeNode::is_full
is_full(node, order) ==
    IF node.node_type = "Leaf" THEN Len(node.leaf_entries) >= order - 1
    ELSE Len(node.internal_entries) >= order - 1

\* bincode's variable-length integers, for the values met here
Varint(n) == IF n < 251 THEN 1 ELSE IF n < 65536 THEN 3 ELSE 5

OptionLen(p) == IF p = NoPosition THEN 1 ELSE 1 + Varint(p)

StringLen(s) == Varint(ByteLen(s)) + ByteLen(s)

\* bincode::encode_to_vec(node): the length of the encoding
NodeEncodedLen(node) ==
    1 + OptionLen(node.parent)
    + 1 + SumSeq([i \in 1 .. Len(node.leaf_entries) |->
                     StringLen(node.leaf_entries[i].key) + 1
                     + Varint(node.leaf_entries[i].position)])
    + 1 + SumSeq([i \in 1 .. Len(node.internal_entries) |->
                     StringLen(node.internal_entries[i].key)
                     + Varint(node.internal_entries[i].child_position)])
    + OptionLen(node.leftmost_child)

\* A faulty variant of FitsBlock: every node is taken.
FitsBlockAlways(node) == TRUE

\* write_node and update_node: encoded.len() <= NODE_SIZE - 4
FitsBlock(node) == NodeEncodedLen(node) <= NODE_SIZE - 4

BlockOf(offset) == offset \div NODE_SIZE + 1

\* seek to the offset and write the size, the node and the padding: one
\* whole block; a write past the end leaves zeros in between.
WriteBlock(blocks, offset, node) ==
    [b \in 1 .. Max({Len(blocks), BlockOf(offset)}) |->
        IF b = BlockOf(offset) THEN node
        ELSE IF b <= Len(blocks) THEN blocks[b] ELSE ZeroBlock]

\* BTreeIndex::read_node
read_node(ix, position) ==
    IF position >= 0 /\ position % NODE_SIZE = 0
       /\ BlockOf(position) <= Len(ix.blocks)
       /\ ix.blocks[BlockOf(position)].node_type \in {"Leaf", "Internal"}
    THEN [ok |-> TRUE, node |-> ix.blocks[BlockOf(position)]]
    ELSE [ok |-> FALSE, node |-> ZeroBlock]

\* A faulty variant of ReserveOffset: the offset is not moved on.
ReserveOffsetSame(metadata) == metadata

\* write_node, lines 618-633: next_offset is moved on under the metadata lock
ReserveOffset(metadata) == [metadata EXCEPT !.next_offset = @ + NODE_SIZE]

\* BTreeIndex::write_node, with save_metadata at its end
write_node(ix, node) ==
    IF ~FitsBlock(node) THEN [ok |-> FALSE, position |-> NoPosition, ix |-> ix]
    ELSE LET logical_offset == ix.metadata.next_offset
             meta == ReserveOffset(ix.metadata)
         IN [ok |-> TRUE, position |-> logical_offset,
             ix |-> [ix EXCEPT !.metadata = meta,
                               !.blocks = WriteBlock(@, logical_offset, node),
                               !.metadata_file = meta]]

\* BTreeIndex::update_node
update_node(ix, position, node) ==
    IF ~FitsBlock(node) THEN [ok |-> FALSE, ix |-> ix]
    ELSE [ok |-> TRUE, ix |-> [ix EXCEPT !.blocks = WriteBlock(@, position, node)]]

\* read_node, parent = Some(parent), update_node: for one child
SetParent(ix, child, parent) ==
    LET r == read_node(ix, child)
    IN IF ~r.ok THEN [ok |-> FALSE, ix |-> ix]
       ELSE update_node(ix, child, [r.node EXCEPT !.parent = parent])

\* the same for the children in turn, stopping at the first error
RECURSIVE SetParents(_, _, _)
SetParents(ix, children, parent) ==
    IF children = <<>> THEN [ok |-> TRUE, ix |-> ix]
    ELSE LET s == SetParent(ix, Head(children), parent)
         IN IF ~s.ok THEN s ELSE SetParents(s.ix, Tail(children), parent)

NoSplit == <<>>

\* BTreeIndex::split_leaf_node
split_leaf_node(ix, node_pos, node) ==
    LET mid == Len(node.leaf_entries) \div 2
        split_key == node.leaf_entries[mid + 1].key
        new_node == [new_leaf EXCEPT
                        !.leaf_entries = SubSeq(node.leaf_entries, mid + 1,
                                                Len(node.leaf_entries)),
                        !.parent = node.parent]
        left == [node EXCEPT !.leaf_entries = SubSeq(node.leaf_entries, 1, mid)]
        w == write_node(ix, new_node)
        u == update_node(w.ix, node_pos, left)
    IN IF ~w.ok THEN [ok |-> FALSE, ix |-> w.ix, split |-> NoSplit]
       ELSE IF ~u.ok THEN [ok |-> FALSE, ix |-> u.ix, split |-> NoSplit]
       ELSE [ok |-> TRUE, ix |-> u.ix, split |-> <<split_key, w.position>>]

\* BTreeIndex::split_internal_node
split_internal_node(ix, node_pos, node) ==
    LET mid == Len(node.internal_entries) \div 2
        split_key == node.internal_entries[mid + 1].key
        mid_entry == node.internal_entries[mid + 1]
        new_node == [new_internal EXCEPT
                        !.internal_entries = SubSeq(node.internal_entries, mid + 2,
                                                    Len(node.internal_entries)),
                        !.leftmost_child = mid_entry.child_position,
                        !.parent = node.parent]
        left == [node EXCEPT !.internal_entries = SubSeq(node.internal_entries, 1, mid)]
        w == write_node(ix, new_node)
        moved == <<new_node.leftmost_child>> \o
                 [i \in 1 .. Len(new_node.internal_entries) |->
                     new_node.internal_entries[i].child_position]
        p == SetParents(w.ix, moved, w.position)
        u == update_node(p.ix, node_pos, left)
    IN IF ~w.ok THEN [ok |-> FALSE, ix |-> w.ix, split |-> NoSplit]
       ELSE IF ~p.ok THEN [ok |-> FALSE, ix |-> p.ix, split |-> NoSplit]
       ELSE IF ~u.ok THEN [ok |-> FALSE, ix |-> u.ix, split |-> NoSplit]
       ELSE [ok |-> TRUE, ix |-> u.ix, split |-> <<split_key, w.position>>]

\* find_in_node and insert_into_node on an internal node: the number of
\* separators passed before the first one the key is below.
\* a descent that turns left at a separator equal to the key
SeparatorsPassedLe(entries, key) ==
    IF \E i \in 1 .. Len(entries) : KeyRank(key) <= KeyRank(entries[i].key)
    THEN Min({i \in 1 .. Len(entries) : KeyRank(key) <= KeyRank(entries[i].key)}) - 1
    ELSE Len(entries)

SeparatorsPassed(entries, key) ==
    IF \E i \in 1 .. Len(entries) : KeyRank(key) < KeyRank(entries[i].key)
    THEN Min({i \in 1 .. Len(entries) : KeyRank(key) < KeyRank(entries[i].key)}) - 1
    ELSE Len(entries)

ChildFor(node, key) ==
    LET n == SeparatorsPassed(node.internal_entries, key)
    IN IF n = 0 THEN node.leftmost_child
       ELSE node.internal_entries[n].child_position

\* BTreeIndex::insert_into_node: the outcomes, one for each place the binary
\* search of the leaf can give.
RECURSIVE insert_into_node(_, _, _, _)
insert_into_node(ix, node_pos, key, position) ==
    LET r == read_node(ix, node_pos)
        node == r.node
        order == ix.metadata.order
    IN IF ~r.ok THEN {[ok |-> FALSE, ix |-> ix, split |-> NoSplit]}
       ELSE IF node.node_type = "Leaf"
       THEN {LET filled == [node EXCEPT !.leaf_entries =
                               InsertAt(@, place, [key |-> key, position |-> position])]
                 u == update_node(ix, node_pos, filled)
             IN IF is_full(filled, order) THEN split_leaf_node(ix, node_pos, filled)
                ELSE [ok |-> u.ok, ix |-> u.ix, split |-> NoSplit]
             : place \in InsertPlaces(node.leaf_entries, key)}
       ELSE IF node.leftmost_child = NoPosition
       THEN {[ok |-> FALSE, ix |-> ix, split |-> NoSplit]}
       ELSE {IF ~below.ok \/ below.split = NoSplit THEN below
             ELSE LET p == SetParent(below.ix, below.split[2], node_pos)
                      filled == [node EXCEPT !.internal_entries =
                                    InsertAt(@, SeparatorsPassed(@, key) + 1,
                                             [key |-> below.split[1],
                                              child_position |-> below.split[2]])]
                      u == update_node(p.ix, node_pos, filled)
                  IN IF ~p.ok THEN [ok |-> FALSE, ix |-> p.ix, split |-> NoSplit]
                     ELSE IF is_full(filled, order)
                     THEN split_internal_node(p.ix, node_pos, filled)
                     ELSE [ok |-> u.ok, ix |-> u.ix, split |-> NoSplit]
             : below \in insert_into_node(ix, ChildFor(node, key), key, position)}

\* save_metadata: the metadata in memory goes to the metadata file
save_metadata(ix) == [ix EXCEPT !.metadata_file = ix.metadata]

\* BTreeIndex::insert: the outcomes [ok, ix]
insert(ix, key, position) ==
    IF ix.metadata.root_position = NoPosition
    THEN LET root == [new_leaf EXCEPT
                         !.leaf_entries = <<[key |-> key, position |-> position]>>]
             w == write_node(ix, root)
         IN {IF ~w.ok THEN [ok |-> FALSE, ix |-> w.ix]
             ELSE [ok |-> TRUE,
                   ix |-> save_metadata([w.ix EXCEPT !.metadata.root_position =
                                                        w.position])]}
    ELSE LET root_pos == ix.metadata.root_position
         IN {IF ~res.ok \/ res.split = NoSplit THEN [ok |-> res.ok, ix |-> res.ix]
             ELSE LET new_root == [new_internal EXCEPT
                                      !.leftmost_child = root_pos,
                                      !.internal_entries =
                                          <<[key |-> res.split[1],
                                             child_position |-> res.split[2]]>>]
                      w == write_node(res.ix, new_root)
                      p == SetParents(w.ix, <<root_pos, res.split[2]>>, w.position)
                  IN IF ~w.ok THEN [ok |-> FALSE, ix |-> w.ix]
                     ELSE IF ~p.ok THEN [ok |-> FALSE, ix |-> p.ix]
                     ELSE [ok |-> TRUE,
                           ix |-> save_metadata([p.ix EXCEPT
                                      !.metadata.root_position = w.position])]
             : res \in insert_into_node(ix, root_pos, key, position)}

FindError == -1         \* find returns an error

\* BTreeIndex::find_in_node: the position, 0 for None
RECURSIVE find_in_node(_, _, _)
find_in_node(ix, node_pos, key) ==
    LET r == read_node(ix, node_pos)
    IN IF ~r.ok THEN FindError
       ELSE IF r.node.node_type = "Leaf" THEN IndexFind(r.node.leaf_entries, key)
       ELSE IF r.node.leftmost_child = NoPosition THEN FindError
       ELSE find_in_node(ix, ChildFor(r.node, key), key)

\* BTreeIndex::find
find(ix, key) ==
    IF ix.metadata.root_position = NoPosition THEN 0
    ELSE find_in_node(ix, ix.metadata.root_position, key)

\* IndexFind for the linear search of delete_from_node: the place of the
\* first entry with the key, 0 for none
FirstWithKey(entries, key) ==
    LET at == {i \in 1 .. Len(entries) : entries[i].key = key}
    IN IF at = {} THEN 0 ELSE Min(at)

\* BTreeIndex::delete_from_node
RECURSIVE delete_from_node(_, _, _)
delete_from_node(ix, node_pos, key) ==
    LET r == read_node(ix, node_pos)
        node == r.node
    IN IF ~r.ok THEN [ok |-> FALSE, ix |-> ix]
       ELSE IF node.node_type = "Leaf"
       THEN LET pos == FirstWithKey(node.leaf_entries, key)
            IN IF pos = 0 THEN [ok |-> TRUE, ix |-> ix]
               ELSE update_node(ix, node_pos,
                        [node EXCEPT !.leaf_entries =
                            [i \in 1 .. Len(@) - 1 |->
                                IF i < pos THEN @[i] ELSE @[i + 1]]])
       ELSE IF node.leftmost_child = NoPosition THEN [ok |-> FALSE, ix |-> ix]
       ELSE delete_from_node(ix, ChildFor(node, key), key)

\* BTreeIndex::delete
delete(ix, key) ==
    IF ix.metadata.root_position = NoPosition THEN [ok |-> TRUE, ix |-> ix]
    ELSE delete_from_node(ix, ix.metadata.root_position, key)

\* The index is kept in segment files of INDEX_SEGMENT_SIZE bytes each
\* (1 GiB in the source: here a few nodes).
NodesPerIndexSegment == 3
INDEX_SEGMENT_SIZE == NodesPerIndexSegment * NODE_SIZE

\* BTreeIndex::offset_to_segment: the segment number of a logical offset
offset_to_segment(logical_offset) == logical_offset \div INDEX_SEGMENT_SIZE

\* get_segment_file creates the file of a segment when a node of that
\* segment is first written: index.btree.N exists once a block at or past
\* N * INDEX_SEGMENT_SIZE has been written.
SegmentFileExists(ix, segment_number) ==
    Len(ix.blocks) > segment_number * NodesPerIndexSegment

\* BTreeIndex::validate_index_files
validate_index_files(ix, metadata) ==
    IF metadata.next_offset = 0 THEN metadata.root_position = NoPosition
    ELSE IF metadata.root_position = NoPosition THEN FALSE
    ELSE IF \E seg_num \in 0 .. offset_to_segment(metadata.next_offset) :
               ~SegmentFileExists(ix, seg_num)
    THEN FALSE                                        \* a segment file is missing
    ELSE IF BlockOf(metadata.root_position) > Len(ix.blocks) THEN FALSE
    ELSE ix.blocks[BlockOf(metadata.root_position)].node_type
            \in {"Leaf", "Internal"}

\* A faulty variant of cleanup_index_files: the files are left.
cleanup_index_files_none(ix) == ix

\* BTreeIndex::cleanup_index_files: every index.btree* file is removed
cleanup_index_files(ix) == [ix EXCEPT !.blocks = <<>>]

\* BTreeIndex::initialize: [ok, ix]
initialize_index(ix) ==
    IF ix.metadata_file = NoMetadataFile THEN [ok |-> TRUE, ix |-> save_metadata(ix)]
    ELSE IF ix.metadata_file = GarbageMetadata THEN [ok |-> FALSE, ix |-> ix]
    ELSE IF validate_index_files(ix, ix.metadata_file)
    THEN [ok |-> TRUE, ix |-> [ix EXCEPT !.metadata = ix.metadata_file]]
    ELSE [ok |-> TRUE, ix |-> save_metadata(cleanup_index_files(ix))]

\* BTreeIndex::new, then initialize where no metadata file exists
BTreeIndexNew ==
    [metadata |-> BTreeMetadataDefault, metadata_file |-> BTreeMetadataDefault,
     blocks |-> <<>>]

NoDelete == [called |-> FALSE]
TreeRunNew == [calls |-> <<>>, initialized |-> "no", damaged |-> FALSE,
               last_delete |-> NoDelete, reopened |-> NoDelete,
               writer |-> NoDelete, finder |-> NoDelete]

\* the tasks that call write_node on one index
WriteTasks == {"n1", "n2", "n3"}
NoWrite == [pc |-> "idle", node |-> ZeroBlock, offset |-> NoPosition,
            encoded |-> NoMetadataFile]
WriteTasksNew == [task |-> [t \in WriteTasks |-> NoWrite], granted |-> <<>>,
                  rejected |-> 0]

\* the tasks that share one TryLock and the value it guards
LockTasks == {"k1", "k2", "k3"}
NoSection == [pc |-> "out", via |-> "none", current |-> 0, last |-> "none"]

\* TryLock::new, and the shared value of the tasks
TryLockNew ==
    [locked |-> FALSE, shared_value |-> 0,
     task |-> [t \in LockTasks |-> NoSection],
     attempts |-> 0, sections |-> 0, releases |-> 0]

\* A faulty variant of swap: the value before is not looked at.
swap_blind(locked, value) == [old |-> FALSE, new |-> value]

\* AtomicBool::swap: the value before, and the value stored
swap(locked, value) == [old |-> locked, new |-> value]

\* A faulty variant of unlock: the flag is left as it is.
unlock_kept(locked) == locked

\* TryLock::unlock: locked.store(false)
unlock(locked) == FALSE

(***************************************************************************)
(* TableSegmentManager: the state of each table and its segment files.     *)
(***************************************************************************)
DISKTABLE_PAGE_SIZE == 12               \* 1 MiB in config.rs
PagesPerSegment == 3                    \* DISKTABLE_PAGE_COUNT_PER_SEGMENT: 1024
DISKTABLE_SEGMENT_SIZE == DISKTABLE_PAGE_SIZE * PagesPerSegment
TABLE_SEGMENT_RECORD_HEADER_SIZE == 5   \* the state byte and the length

TableSegmentStateDefault ==
    [last_segment_id |-> 0, segment_file_size |-> 0, current_page_offset |-> 0,
     current_page_index |-> 0]

\* TableSegmentManager::new; file_len holds the length of each segment file
\* of a table, by segment id, and bytes its content; frames lists the frames
\* written, oldest first, marked the frames given to mark_deleted_record.
TableSegmentNew ==
    [tables_map |-> [t \in Tables |-> TableSegmentStateDefault],
     file_len |-> [t \in Tables |-> <<>>],
     frames |-> [t \in Tables |-> <<>>],
     bytes |-> [t \in Tables |-> <<>>],
     marked |-> [t \in Tables |-> {}],
     restarted |-> FALSE,
     last_mark |-> [called |-> FALSE]]

\* file_resize_and_set_zero on the file of the segment: `size` zero bytes
\* are added at its end
FileResize(file_len, segment_id, size) ==
    [i \in 1 .. Max({Len(file_len), segment_id}) |->
        IF i = segment_id THEN (IF i <= Len(file_len) THEN file_len[i] ELSE 0) + size
        ELSE file_len[i]]

\* create_segment: the next id, a file made anew and sized to `size`
create_segment(state, file_len, size) ==
    LET id == state.last_segment_id + 1
        emptied == [i \in 1 .. Max({Len(file_len), id}) |->
                       IF i = id \/ i > Len(file_len) THEN 0 ELSE file_len[i]]
    IN [state |-> [last_segment_id |-> id, current_page_index |-> 0,
                   current_page_offset |-> 0, segment_file_size |-> size],
        file_len |-> FileResize(emptied, id, size)]

\* increase_segment: one more page at the end of the segment
increase_segment(state, file_len, size) ==
    [state |-> [state EXCEPT
                   !.current_page_offset = state.segment_file_size,
                   !.current_page_index = @ + 1,
                   !.segment_file_size = @ + size],
     file_len |-> FileResize(file_len, state.last_segment_id, size)]

\* RecordStateFlags as u8
FlagNothing == 0
FlagAlive == 1
FlagDeleted == 2

\* u32::to_be_bytes and read_u32: four bytes, the most significant first
ToBeBytes(n) ==
    <<(n \div 16777216) % 256, (n \div 65536) % 256, (n \div 256) % 256, n % 256>>
FromBeBytes(b) == ((b[1] * 256 + b[2]) * 256 + b[3]) * 256 + b[4]

\* the encoded payload of the n-th record appended to a table: length bytes
\* that tell the record
PayloadBytes(n, length) == [i \in 1 .. length |-> 10 + n]

\* append_record, lines 487-505: the header of five bytes and the payload
WriteBuffer(payload) == <<FlagAlive>> \o ToBeBytes(Len(payload)) \o payload

\* a file extended with zeros to the length len
ZeroFill(file, len) ==
    [i \in 1 .. Max({len, Len(file)}) |-> IF i <= Len(file) THEN file[i] ELSE 0]

\* seek(offset), write_all(data)
WriteAt(file, offset, data) ==
    [i \in 1 .. Max({Len(file), offset + Len(data)}) |->
        IF i > offset /\ i <= offset + Len(data) THEN data[i - offset]
        ELSE IF i <= Len(file) THEN file[i] ELSE 0]

\* A faulty variant of StartsNewSegment: only the first segment is started.
StartsNewSegmentFirstOnly(state, total_bytes) == state.segment_file_size = 0

\* append_record, lines 516-518: a new segment rather than a new page
StartsNewSegment(state, total_bytes) ==
    \/ state.segment_file_size = 0
    \/ state.segment_file_size + total_bytes > DISKTABLE_SEGMENT_SIZE

\* TableSegmentManager::append_record for a payload of payload_len bytes,
\* under the lock of tables_map from its first step to its last
append_record(ts, table, payload_len) ==
    LET total_bytes == TABLE_SEGMENT_RECORD_HEADER_SIZE + payload_len
        before == ts.tables_map[table]
        full == before.current_page_offset + total_bytes > before.segment_file_size
        made == IF ~full
                THEN [state |-> before, file_len |-> ts.file_len[table]]
                ELSE IF StartsNewSegment(before, total_bytes)
                THEN create_segment(before, ts.file_len[table], DISKTABLE_PAGE_SIZE)
                ELSE increase_segment(before, ts.file_len[table],
                                      DISKTABLE_PAGE_SIZE)
        st == made.state
        end == st.current_page_offset + total_bytes
        written == [made.file_len EXCEPT ![st.last_segment_id] = Max({@, end})]
        created == full /\ StartsNewSegment(before, total_bytes)
        old == ts.bytes[table]
        sized == [i \in 1 .. Len(made.file_len) |->
                    IF created /\ i = st.last_segment_id
                    THEN ZeroFill(<<>>, made.file_len[i])
                    ELSE ZeroFill(IF i <= Len(old) THEN old[i] ELSE <<>>,
                                  made.file_len[i])]
        payload == PayloadBytes(Len(ts.frames[table]) + 1, payload_len)
    IN [position |-> [segment_id |-> st.last_segment_id,
                      offset |-> st.current_page_offset],
        ts |-> [ts EXCEPT
                   !.tables_map[table] =
                       [st EXCEPT !.current_page_offset = end],
                   !.file_len[table] = written,
                   !.bytes[table] =
                       [sized EXCEPT ![st.last_segment_id] =
                           WriteAt(@, st.current_page_offset,
                                   WriteBuffer(payload))],
                   !.frames[table] =
                       Append(@, [segment_id |-> st.last_segment_id,
                                  offset |-> st.current_page_offset,
                                  end |-> end,
                                  segment_file_size |-> st.segment_file_size])]]

\* write_memtable, one entry of the memtable, with `place` where the index
\* inserts: the records and the leaf after it.
WriteEntry(records, leaf, key, value, place) ==
    LET old_position == IndexFind(leaf, key)
        marked == IF old_position # 0 THEN mark_deleted_record(records, old_position)
                  ELSE records
    IN IF value # None
       THEN [records |-> Append(marked, [key |-> key, value |-> value, flag |-> "Alive"]),
             leaf |-> InsertAt(leaf, place, [key |-> key, position |-> Len(marked) + 1])]
       ELSE [records |-> marked, leaf |-> leaf]

\* DiskTableManager::get: the index, then the record unless flagged Deleted.
DiskGet(records, leaf, key) ==
    LET position == IndexFind(leaf, key)
    IN IF position = 0 THEN NotFound
       ELSE IF records[position].flag = Deleted THEN Deleted
       ELSE records[position].value

(***************************************************************************)
(* DBEngine::get_value: the active memtable, then the flushing one, then   *)
(* the disk table.                                                         *)
(***************************************************************************)
\* MemtableManager::get
MemtableGet(table, key) ==
    IF table \in DOMAIN memtable_map
    THEN HashMemtableGet(memtables[memtable_map[table]], key)
    ELSE NotFound

\* MemtableManager::get_from_flushing
MemtableGetFromFlushing(table, key) ==
    IF table \in DOMAIN flushing_memtable_map
    THEN HashMemtableGet(memtables[flushing_memtable_map[table]], key)
    ELSE NotFound

\* get_value waits for flushing_memtable_map's read lock when the active
\* memtable does not hold the key.
GetValueReturns(table, key) ==
    up /\ (MemtableGet(table, key) # NotFound \/ flushing_lock = "free")

\* What get_value answers: a value, or NotFound for ValueNotFound.
get_value(table, key) ==
    LET active == MemtableGet(table, key)
        flushing == MemtableGetFromFlushing(table, key)
        disk == DiskGet(disk_records[table], disk_index[table], key)
    IN IF active = Deleted THEN NotFound
       ELSE IF active # NotFound THEN active
       ELSE IF flushing = Deleted THEN NotFound
       ELSE IF flushing # NotFound THEN flushing
       ELSE IF disk \in {NotFound, Deleted} THEN NotFound
       ELSE disk


(***************************************************************************)
(* MemtableManager.                                                        *)
(***************************************************************************)
U64_MODULUS == 1073741824   \* stands for 2^64: AtomicU64 arithmetic wraps

\* AtomicU64::fetch_sub
FetchSub(size, n) == (size - n + U64_MODULUS) % U64_MODULUS

TableRank(t) == 1           \* order in which trigger_flush visits the tables

\* trigger_flush, lines 166-176: every table of memtable_map gets a new empty
\* memtable in flushing_memtable_map, then the two maps are swapped.
SwapMemtables(mts, mmap, fmap) ==
    LET fresh(t) == Len(mts) + TableRank(t)
        filled == [t \in DOMAIN fmap \cup DOMAIN mmap |->
                      IF t \in DOMAIN mmap THEN fresh(t) ELSE fmap[t]]
    IN [memtables |-> mts \o [i \in 1 .. Cardinality(DOMAIN mmap) |-> HashMemtableNew],
        memtable_map |-> filled,
        flushing_memtable_map |-> mmap]

\* The size put adds for an entry.
PutBytes(key, value) == ByteLen(key) + ByteLen(value)

\* A faulty variant of OverHardLimit: the limit is never reached.
OverHardLimitNever(size, bytes) == FALSE

\* put, line 211: current size + bytes in u64, which wraps in a release build
NewSizeValue(size, bytes) == (size + bytes) % U64_MODULUS

OverHardLimit(size, bytes) == NewSizeValue(size, bytes) > HARD_LIMIT

\* A faulty variant of CompareExchangeIsOk: the exchange always succeeds.
CompareExchangeAlwaysOk(current, expected) == TRUE

\* AtomicBool::compare_exchange(expected, new).is_ok()
CompareExchangeIsOk(current, expected) == current = expected

\* A faulty variant of HasCapacity: the channel never takes an event.
HasCapacityNever(ch) == FALSE

\* The flush channel is mpsc::channel(1): send waits while one event is queued.
HasCapacity(ch) == Len(ch) < 1

(***************************************************************************)
(* The manager while DBEngine::initialize replays the WAL: one task, the   *)
(* flush task not yet started.  m = [memtables, memtable_map,              *)
(* flushing_memtable_map, memtable_current_size, channel, failed].         *)
(***************************************************************************)
\* trigger_flush run to its end; the send waits for ever if the channel is
\* full, as nothing receives yet.
SeqTriggerFlush(m) ==
    LET sw == SwapMemtables(m.memtables, m.memtable_map, m.flushing_memtable_map)
    IN IF ~HasCapacity(m.channel) THEN [m EXCEPT !.failed = TRUE]
       ELSE [m EXCEPT !.memtables = sw.memtables,
                      !.memtable_map = sw.memtable_map,
                      !.flushing_memtable_map = EmptyMap,
                      !.memtable_current_size = 0,
                      !.channel = Append(@, sw.flushing_memtable_map)]

\* put run to its end
SeqPut(m, table, key, value) ==
    LET bytes == PutBytes(key, value)
        m1 == IF OverHardLimit(m.memtable_current_size, bytes)
              THEN SeqTriggerFlush(m) ELSE m
    IN IF m1.failed \/ OverHardLimit(m1.memtable_current_size, bytes)
          \/ table \notin DOMAIN m1.memtable_map
       THEN [m1 EXCEPT !.failed = TRUE]
       ELSE LET h == m1.memtable_map[table]
                old == HashMemtablePutOld(m1.memtables[h], key)
                added == NewSizeValue(m1.memtable_current_size, bytes)
            IN [m1 EXCEPT
                   !.memtables[h] = HashMemtablePut(@, key, value),
                   !.memtable_current_size =
                       IF old >= 0 THEN FetchSub(added, old) ELSE added]

\* delete run to its end; TableNotFound is ignored by load_wal_records
SeqDelete(m, table, key) ==
    IF table \notin DOMAIN m.memtable_map THEN m
    ELSE [m EXCEPT !.memtables[m.memtable_map[table]] = HashMemtableDelete(@, key)]

\* MemtableManager::load_wal_records
RECURSIVE load_wal_records(_, _)
load_wal_records(m, records) ==
    IF records = <<>> \/ m.failed THEN m
    ELSE LET r == Head(records)
         IN load_wal_records(
                IF r.record_type = "Put"
                THEN SeqPut(m, r.table, r.key, IF r.value = None THEN "" ELSE r.value)
                ELSE SeqDelete(m, r.table, r.key),
                Tail(records))

\* A faulty variant of ReplayFilter: every record scanned is replayed.
ReplayFilterAll(records, checkpoint) == records

\* DBEngine::initialize, lines 134-137: the records above the checkpoint
ReplayFilter(records, checkpoint) ==
    LET above(r) == r.record_id > checkpoint
    IN SelectSeq(records, above)

\* DBEngine::initialize, lines 117-140: the segments from the checkpoint's
\* on, in file-name order, each scanned and replayed.
RECURSIVE ReplaySegments(_, _, _, _)
ReplaySegments(m, files, ws, segs) ==
    IF segs = {} \/ m.failed THEN {m}
    ELSE LET seg == Min(segs)
         IN IF seg < ws.last_checkpoint_segment_id
            THEN ReplaySegments(m, files, ws, segs \ {seg})
            ELSE UNION {ReplaySegments(
                            load_wal_records(m, ReplayFilter(res.records,
                                                 ws.last_checkpoint_record_id)),
                            files, ws, segs \ {seg})
                        : res \in scan_records(files[seg])}

\* MemtableManager::new and load_table_list
NewMemtableManager ==
    [memtables |-> [i \in 1 .. Cardinality(Tables) |-> HashMemtableNew],
     memtable_map |-> [t \in Tables |-> TableRank(t)],
     flushing_memtable_map |-> EmptyMap,
     memtable_current_size |-> 0,
     channel |-> <<>>,
     failed |-> FALSE]


(***************************************************************************)
(* Client threads.                                                         *)
(***************************************************************************)
NoLocal ==
    [op |-> "none", record |-> None, memtable |-> 0, old_size |-> 0,
     event |-> EmptyMap, ret |-> "none"]

Idle(t) == pc[t] = "idle"

\* The wal_manager mutex is held by a thread inside append.
WalManagerLocked == \E t \in Threads : pc[t] = "append_write"

\* The call returns: Ok(()) acknowledges the put or delete.
Return(t, acknowledged) ==
    /\ pc' = [pc EXCEPT ![t] = "idle"]
    /\ local' = [local EXCEPT ![t] = NoLocal]
    /\ run' = IF acknowledged
              THEN [run EXCEPT !.acked[local[t].record.table][local[t].record.key] =
                                   local[t].record.value,
                               !.synced = FALSE]
              ELSE [run EXCEPT !.unacked = @ \cup {local[t].record.key}]

\* Where the caller of append goes on when append returns Ok.
AfterAppend(op) ==
    IF op = "put" THEN "put_loop" ELSE IF op = "delete" THEN "delete_loop" ELSE "idle"

\* WALManager::append up to the rotation, called for `op`.  With no rotation
\* the record is written in the same step.
AppendBegin(t, record, op) ==
    /\ up /\ Idle(t) /\ ~WalManagerLocked
    /\ IF NeedNewSegment(wal_state, record)
       THEN LET rot == new_segment_file(wal_state, wal_files)
            IN /\ wal_state' = rot.wal_state
               /\ wal_files' = rot.wal_files
               /\ mapped' = rot.mapped
               /\ pc' = [pc EXCEPT ![t] = "append_write"]
               /\ local' = [local EXCEPT ![t] =
                               [NoLocal EXCEPT !.op = op, !.record = record]]
               /\ run' = [run EXCEPT !.appends = @ + 1, !.fresh = FALSE,
                                     !.synced = FALSE]
       ELSE LET res == append_write(wal_state, wal_files, mapped, record)
            IN /\ wal_state' = res.wal_state
               /\ wal_files' = res.wal_files
               /\ mapped' = mapped
               /\ pc' = [pc EXCEPT ![t] = IF res.ok THEN AfterAppend(op) ELSE "idle"]
               /\ local' = [local EXCEPT ![t] =
                               IF res.ok /\ AfterAppend(op) # "idle"
                               THEN [NoLocal EXCEPT !.op = op, !.record = res.rec]
                               ELSE NoLocal]
               /\ run' = [run EXCEPT !.appends = @ + 1, !.fresh = FALSE,
                                     !.synced = FALSE,
                                     !.log = IF res.ok THEN Append(@, res.rec) ELSE @]
    /\ UNCHANGED <<state_file, disk_vars, mem_vars, bridge, up>>

\* DBEngine::put_value: the WAL first, then the memtable.
put_value(t, table, key, value) ==
    /\ t \in Writers
    /\ run.appends < MaxPuts
    /\ AppendBegin(t, WALRecord(0, "Put", table, key, value), "put")

\* DBEngine::delete_value
delete_value(t, table, key) ==
    /\ t \in Writers
    /\ run.appends < MaxPuts
    /\ AppendBegin(t, WALRecord(0, "Delete", table, key, None), "delete")

\* append after a rotation: the record is written to the new segment.
AppendWrite(t) ==
    /\ up /\ pc[t] = "append_write"
    /\ LET res == append_write(wal_state, wal_files, mapped, local[t].record)
           op == local[t].op
       IN /\ wal_state' = res.wal_state
          /\ wal_files' = res.wal_files
          /\ pc' = [pc EXCEPT ![t] = IF res.ok THEN AfterAppend(op) ELSE "idle"]
          /\ local' = [local EXCEPT ![t] =
                          IF res.ok /\ AfterAppend(op) # "idle"
                          THEN [NoLocal EXCEPT !.op = op, !.record = res.rec]
                          ELSE NoLocal]
          /\ run' = [run EXCEPT !.synced = FALSE,
                                !.log = IF res.ok THEN Append(@, res.rec) ELSE @]
    /\ UNCHANGED <<state_file, mapped, disk_vars, mem_vars, bridge, up>>

\* MemtableManager::put, lines 203-207: wait while block_write is set.
PutCheckBlocked(t) ==
    /\ up /\ pc[t] = "put_loop"
    /\ ~block_write
    /\ pc' = [pc EXCEPT ![t] = "put_size"]
    /\ UNCHANGED <<wal_vars, disk_vars, mem_vars, local, bridge, up, run>>

\* put, lines 209-236: over the hard limit, call trigger_flush; otherwise the
\* compare-and-swap of memtable_current_size.
PutSize(t) ==
    /\ up /\ pc[t] = "put_size"
    /\ LET bytes == PutBytes(local[t].record.key, local[t].record.value)
       IN IF OverHardLimit(memtable_current_size, bytes)
          THEN /\ pc' = [pc EXCEPT ![t] = "tf_cas"]
               /\ local' = [local EXCEPT ![t].ret = "put"]
               /\ UNCHANGED <<memtable_current_size, run>>
          ELSE /\ memtable_current_size' = NewSizeValue(memtable_current_size, bytes)
               /\ pc' = [pc EXCEPT ![t] = "put_get"]
               /\ UNCHANGED <<local, run>>
    /\ UNCHANGED <<wal_vars, disk_vars, memtables, memtable_map,
                   flushing_memtable_map, flushing_lock, block_write, channel,
                   bridge, up>>

\* put, lines 240-247: the table's memtable, from memtable_map.
PutGetMemtable(t) ==
    /\ up /\ pc[t] = "put_get"
    /\ IF local[t].record.table \in DOMAIN memtable_map
       THEN /\ pc' = [pc EXCEPT ![t] = "put_insert"]
            /\ local' = [local EXCEPT ![t].memtable = memtable_map[local[t].record.table]]
            /\ UNCHANGED run
       ELSE Return(t, FALSE)
    /\ UNCHANGED <<wal_vars, disk_vars, mem_vars, bridge, up>>

\* The memtable's mutex, held by the flush task while it drains it.
MemtableLocked(h) ==
    bridge.pc = "entries" /\ bridge.event[bridge.table] = h

\* put, lines 250-251: lock the memtable and insert.
PutInsert(t) ==
    /\ up /\ pc[t] = "put_insert"
    /\ ~MemtableLocked(local[t].memtable)
    /\ LET h == local[t].memtable
           r == local[t].record
           old == HashMemtablePutOld(memtables[h], r.key)
       IN /\ memtables' = [memtables EXCEPT ![h] = HashMemtablePut(@, r.key, r.value)]
          /\ IF old >= 0
             THEN /\ pc' = [pc EXCEPT ![t] = "put_sub"]
                  /\ local' = [local EXCEPT ![t].old_size = old]
                  /\ UNCHANGED run
             ELSE Return(t, TRUE)
    /\ UNCHANGED <<wal_vars, disk_vars, memtable_map, flushing_memtable_map,
                   flushing_lock, memtable_current_size, block_write, channel,
                   bridge, up>>

\* put, lines 254-259: take the old value's length off the size.
PutSub(t) ==
    /\ up /\ pc[t] = "put_sub"
    /\ memtable_current_size' = FetchSub(memtable_current_size, local[t].old_size)
    /\ Return(t, TRUE)
    /\ UNCHANGED <<wal_vars, disk_vars, memtables, memtable_map,
                   flushing_memtable_map, flushing_lock, block_write, channel,
                   bridge, up>>

\* MemtableManager::delete, lines 294-303: wait while block_write is set.
DeleteCheckBlocked(t) ==
    /\ up /\ pc[t] = "delete_loop"
    /\ ~block_write
    /\ pc' = [pc EXCEPT ![t] = "delete_apply"]
    /\ UNCHANGED <<wal_vars, disk_vars, mem_vars, local, bridge, up, run>>

\* delete, lines 306-317: the tombstone, in the table's active memtable.
DeleteApply(t) ==
    /\ up /\ pc[t] = "delete_apply"
    /\ LET r == local[t].record
       IN IF r.table \in DOMAIN memtable_map
          THEN /\ memtables' = [memtables EXCEPT ![memtable_map[r.table]] =
                                    HashMemtableDelete(@, r.key)]
               /\ Return(t, TRUE)
          ELSE /\ Return(t, FALSE)
               /\ UNCHANGED memtables
    /\ UNCHANGED <<wal_vars, disk_vars, memtable_map, flushing_memtable_map,
                   flushing_lock, memtable_current_size, block_write, channel,
                   bridge, up>>


(***************************************************************************)
(* MemtableManager::trigger_flush, step by step, by the thread t that      *)
(* called it: put over the hard limit, or trigger_memtable_flush.          *)
(***************************************************************************)
\* DBEngine::trigger_memtable_flush
trigger_memtable_flush(t) ==
    /\ up /\ Idle(t) /\ t \in Admins
    /\ run.flushes < MaxFlushes
    /\ pc' = [pc EXCEPT ![t] = "tf_cas"]
    /\ local' = [local EXCEPT ![t].ret = "admin"]
    /\ run' = [run EXCEPT !.flushes = @ + 1, !.fresh = FALSE]
    /\ UNCHANGED <<wal_vars, disk_vars, mem_vars, bridge, up>>

\* lines 159-164: compare_exchange(false, true) on block_write; the error
\* goes back to the caller.
TfCas(t) ==
    /\ up /\ pc[t] = "tf_cas"
    /\ IF ~CompareExchangeIsOk(block_write, FALSE)
       THEN /\ pc' = [pc EXCEPT ![t] = "idle"]
            /\ local' = [local EXCEPT ![t] = NoLocal]
            /\ run' = IF local[t].ret = "put"
                      THEN [run EXCEPT !.unacked = @ \cup {local[t].record.key}]
                      ELSE run
            /\ UNCHANGED block_write
       ELSE /\ block_write' = TRUE
            /\ pc' = [pc EXCEPT ![t] = "tf_reset"]
            /\ UNCHANGED <<local, run>>
    /\ UNCHANGED <<wal_vars, disk_vars, memtables, memtable_map,
                   flushing_memtable_map, flushing_lock, memtable_current_size,
                   channel, bridge, up>>

\* line 165: memtable_current_size.store(0)
TfReset(t) ==
    /\ up /\ pc[t] = "tf_reset"
    /\ memtable_current_size' = 0
    /\ pc' = [pc EXCEPT ![t] = "tf_swap"]
    /\ UNCHANGED <<wal_vars, disk_vars, memtables, memtable_map,
                   flushing_memtable_map, flushing_lock, block_write, channel,
                   local, bridge, up, run>>

\* lines 166-176: under both write locks
TfSwap(t) ==
    /\ up /\ pc[t] = "tf_swap"
    /\ flushing_lock = "free"
    /\ LET sw == SwapMemtables(memtables, memtable_map, flushing_memtable_map)
       IN /\ memtables' = sw.memtables
          /\ memtable_map' = sw.memtable_map
          /\ flushing_memtable_map' = sw.flushing_memtable_map
    /\ pc' = [pc EXCEPT ![t] = "tf_take"]
    /\ UNCHANGED <<wal_vars, disk_vars, flushing_lock, memtable_current_size,
                   block_write, channel, local, bridge, up, run>>

\* lines 178-180: the write lock again, and mem::take of the flushing map
TfTake(t) ==
    /\ up /\ pc[t] = "tf_take"
    /\ flushing_lock = "free"
    /\ flushing_lock' = t
    /\ local' = [local EXCEPT ![t].event = flushing_memtable_map]
    /\ flushing_memtable_map' = EmptyMap
    /\ pc' = [pc EXCEPT ![t] = "tf_send"]
    /\ UNCHANGED <<wal_vars, disk_vars, memtables, memtable_map,
                   memtable_current_size, block_write, channel, bridge, up, run>>

\* lines 182-190: send on the channel of capacity 1
TfSend(t) ==
    /\ up /\ pc[t] = "tf_send"
    /\ HasCapacity(channel)
    /\ channel' = Append(channel, local[t].event)
    /\ pc' = [pc EXCEPT ![t] = "tf_unblock"]
    /\ UNCHANGED <<wal_vars, disk_vars, memtables, memtable_map,
                   flushing_memtable_map, flushing_lock, memtable_current_size,
                   block_write, local, bridge, up, run>>

\* lines 192-194: block_write.store(false), and the return drops the lock
TfUnblock(t) ==
    /\ up /\ pc[t] = "tf_unblock"
    /\ block_write' = FALSE
    /\ flushing_lock' = "free"
    /\ pc' = [pc EXCEPT ![t] = IF local[t].ret = "put" THEN "put_loop" ELSE "idle"]
    /\ local' = [local EXCEPT ![t] =
                    IF local[t].ret = "put" THEN [@ EXCEPT !.event = EmptyMap]
                    ELSE NoLocal]
    /\ UNCHANGED <<wal_vars, disk_vars, memtables, memtable_map,
                   flushing_memtable_map, memtable_current_size, channel,
                   bridge, up, run>>

\* DBEngine::flush_wal: the mapped segment is synced to the disk
flush_wal(t) ==
    /\ up /\ Idle(t) /\ t \in Admins /\ ~WalManagerLocked
    /\ ~run.synced
    /\ run' = [run EXCEPT !.synced = TRUE]
    /\ UNCHANGED <<wal_vars, disk_vars, mem_vars, pc, local, bridge, up>>

\* DBEngine::get_value, answering get_value(table, key): it changes nothing
GetValue(t, table, key) ==
    /\ Idle(t) /\ t \in Admins
    /\ GetValueReturns(table, key)
    /\ UNCHANGED vars

(***************************************************************************)
(* The flush task: recv, write_memtable, remove_old_wal_segments.          *)
(***************************************************************************)
BridgeIdle ==
    [pc |-> "recv", event |-> EmptyMap, tables |-> {}, table |-> None, todo |-> {},
     failed |-> FALSE]

\* A faulty variant of AtRecv: an event is taken at any point of the handling.
AtRecvAlways(b) == TRUE

\* The flush task is at `memtable_flush_receiver.recv().await`, the head of
\* its loop.
AtRecv(b) == b.pc = "recv"

BridgeRecv ==
    /\ up /\ AtRecv(bridge)
    /\ channel # <<>>
    /\ bridge' = [BridgeIdle EXCEPT !.pc = "table", !.event = Head(channel),
                                    !.tables = DOMAIN Head(channel)]
    /\ channel' = Tail(channel)
    /\ UNCHANGED <<wal_vars, disk_vars, memtables, memtable_map,
                   flushing_memtable_map, flushing_lock, memtable_current_size,
                   block_write, pc, local, up, run>>

\* write_memtable, lines 206-211: the next table, its memtable locked
BridgeLock ==
    /\ up /\ bridge.pc = "table"
    /\ bridge.tables # {}
    /\ \E table \in bridge.tables :
          bridge' = [bridge EXCEPT !.pc = "entries", !.table = table,
                                   !.tables = @ \ {table},
                                   !.todo = DOMAIN memtables[bridge.event[table]]]
    /\ UNCHANGED <<wal_vars, disk_vars, mem_vars, pc, local, up, run>>

\* write_memtable, lines 213-258: one entry of the locked memtable
BridgeEntry ==
    /\ up /\ bridge.pc = "entries"
    /\ bridge.todo # {}
    /\ LET table == bridge.table
           memtable == memtables[bridge.event[table]]
       IN \E key \in bridge.todo :
          \E place \in InsertPlaces(disk_index[table], key) :
             LET w == WriteEntry(disk_records[table], disk_index[table], key,
                                 memtable[key], place)
             IN /\ disk_records' = [disk_records EXCEPT ![table] = w.records]
                /\ disk_index' = [disk_index EXCEPT ![table] = w.leaf]
                /\ UNCHANGED <<btree_index, tree_run, write_tasks, try_lock, table_segment>>
                /\ bridge' = [bridge EXCEPT !.todo = @ \ {key}]
    /\ UNCHANGED <<wal_vars, mem_vars, pc, local, up, run>>

\* write_memtable, line 260: memtable.table.clear(), and the lock dropped
BridgeClear ==
    /\ up /\ bridge.pc = "entries"
    /\ bridge.todo = {}
    /\ memtables' = [memtables EXCEPT ![bridge.event[bridge.table]] = HashMemtableNew]
    /\ bridge' = [bridge EXCEPT !.pc = "table", !.table = None]
    /\ UNCHANGED <<wal_vars, disk_vars, memtable_map, flushing_memtable_map,
                   flushing_lock, memtable_current_size, block_write, channel,
                   pc, local, up, run>>

\* write_memtable, lines 263-274: the checkpoint, saved to the state file
Checkpoint(ws) ==
    [ws EXCEPT !.last_checkpoint_record_id = ws.last_record_id,
               !.last_checkpoint_segment_id = ws.last_segment_id]

BridgeCheckpoint ==
    /\ up /\ bridge.pc = "table"
    /\ bridge.tables = {}
    /\ wal_state' = Checkpoint(wal_state)
    /\ state_file' = Checkpoint(wal_state)
    /\ bridge' = [bridge EXCEPT !.pc = "remove"]
    /\ run' = [run EXCEPT !.checkpoints = @ + 1]
    /\ UNCHANGED <<wal_files, mapped, disk_vars, mem_vars, pc, local, up>>

\* A faulty variant of OldSegments: the checkpoint's segment goes too.
OldSegmentsUpTo(ws, files) ==
    {s \in list_segment_files(files) : s <= ws.last_checkpoint_segment_id}

\* WALManager::remove_old_wal_segments: the files it deletes
OldSegments(ws, files) ==
    {s \in list_segment_files(files) : s < ws.last_checkpoint_segment_id}

BridgeRemove ==
    /\ up /\ bridge.pc = "remove"
    /\ wal_files' = [s \in SegIds |->
                        IF s \in OldSegments(wal_state, wal_files) THEN NoFile
                        ELSE wal_files[s]]
    /\ bridge' = BridgeIdle
    /\ run' = [run EXCEPT !.removed = @ \cup OldSegments(wal_state, wal_files)]
    /\ UNCHANGED <<state_file, wal_state, mapped, disk_vars, mem_vars, pc,
                   local, up>>


(***************************************************************************)
(* The process: a crash, and DBEngine::initialize on the files it left.    *)
(***************************************************************************)
\* Nothing in flight: every call has returned and the flush task waits.
Quiescent ==
    /\ \A t \in Threads : Idle(t)
    /\ bridge.pc = "recv" /\ channel = <<>>

\* The process dies; the files stay, the memory is lost.
CrashWithin(limit) ==
    /\ up
    /\ run.crashes < limit
    /\ up' = FALSE
    /\ wal_state' = DefaultWALState
    /\ mapped' = 0
    /\ memtables' = NewMemtableManager.memtables
    /\ memtable_map' = NewMemtableManager.memtable_map
    /\ flushing_memtable_map' = EmptyMap
    /\ flushing_lock' = "free"
    /\ memtable_current_size' = 0
    /\ block_write' = FALSE
    /\ channel' = <<>>
    /\ pc' = [t \in Threads |-> "idle"]
    /\ local' = [t \in Threads |-> NoLocal]
    /\ bridge' = BridgeIdle
    /\ run' = [run EXCEPT !.crashes = @ + 1,
                          !.clean = Quiescent,
                          !.inflight = ~Quiescent,
                          !.at_crash = wal_state]
    /\ UNCHANGED <<state_file, wal_files, disk_vars>>

\* A crash of the engine
Crash == CrashWithin(MaxRestarts)

\* DBEngine::initialize: WALManager::load, then the replay of the WAL into a
\* new MemtableManager, then the flush task is started.
initialize ==
    /\ ~up
    /\ \E ws \in recover_state(state_file, wal_files) :
       \E m \in ReplaySegments(NewMemtableManager, wal_files, ws,
                               list_segment_files(wal_files)) :
          /\ wal_files[get_current_segment_file_name(ws)] # NoFile
          /\ ~m.failed
          /\ wal_state' = ws
          /\ state_file' = ws
          /\ mapped' = get_current_segment_file_name(ws)
          /\ memtables' = m.memtables
          /\ memtable_map' = m.memtable_map
          /\ flushing_memtable_map' = m.flushing_memtable_map
          /\ memtable_current_size' = m.memtable_current_size
          /\ channel' = m.channel
    /\ up' = TRUE
    /\ run' = [run EXCEPT !.fresh = TRUE]
    /\ UNCHANGED <<wal_files, disk_vars, flushing_lock, block_write, pc, local,
                   bridge>>

(***************************************************************************)
(* The specification.                                                      *)
(***************************************************************************)
\* The state after initialize on an empty directory.
\* the engine after construction, with the WAL, the memtables and the tasks
InitEngine ==
    /\ state_file = DefaultWALState
    /\ wal_files = [s \in SegIds |-> IF s = 0 THEN EmptyFile ELSE NoFile]
    /\ disk_records = [t \in Tables |-> <<>>]
    /\ disk_index = [t \in Tables |-> <<>>]
    /\ wal_state = DefaultWALState
    /\ mapped = 0
    /\ memtables = NewMemtableManager.memtables
    /\ memtable_map = NewMemtableManager.memtable_map
    /\ flushing_memtable_map = EmptyMap
    /\ flushing_lock = "free"
    /\ memtable_current_size = 0
    /\ block_write = FALSE
    /\ channel = <<>>
    /\ pc = [t \in Threads |-> "idle"]
    /\ local = [t \in Threads |-> NoLocal]
    /\ bridge = BridgeIdle
    /\ up = TRUE
    /\ run = [appends |-> 0, flushes |-> 0, crashes |-> 0, checkpoints |-> 0,
              clean |-> TRUE, inflight |-> FALSE, fresh |-> TRUE,
              synced |-> FALSE, removed |-> {}, unacked |-> {},
              at_crash |-> DefaultWALState,
              acked |-> [t \in Tables |-> [k \in Keys |-> "absent"]],
              log |-> <<>>]

Init ==
    /\ InitEngine
    /\ btree_index = BTreeIndexNew
    /\ tree_run = TreeRunNew
    /\ write_tasks = WriteTasksNew
    /\ try_lock = TryLockNew
    /\ table_segment = TableSegmentNew

Next ==
    \/ \E t \in Threads, table \in Tables, key \in Keys, value \in Values :
          put_value(t, table, key, value)
    \/ \E t \in Threads, table \in Tables, key \in Keys :
          delete_value(t, table, key)
    \/ \E t \in Threads : AppendWrite(t)
    \/ \E t \in Threads : PutCheckBlocked(t)
    \/ \E t \in Threads : PutSize(t)
    \/ \E t \in Threads : PutGetMemtable(t)
    \/ \E t \in Threads : PutInsert(t)
    \/ \E t \in Threads : PutSub(t)
    \/ \E t \in Threads : DeleteCheckBlocked(t)
    \/ \E t \in Threads : DeleteApply(t)
    \/ \E t \in Threads : trigger_memtable_flush(t)
    \/ \E t \in Threads : TfCas(t)
    \/ \E t \in Threads : TfReset(t)
    \/ \E t \in Threads : TfSwap(t)
    \/ \E t \in Threads : TfTake(t)
    \/ \E t \in Threads : TfSend(t)
    \/ \E t \in Threads : TfUnblock(t)
    \/ \E t \in Threads : flush_wal(t)
    \/ \E t \in Threads, table \in Tables, key \in Keys : GetValue(t, table, key)
    \/ BridgeRecv
    \/ BridgeLock
    \/ BridgeEntry
    \/ BridgeClear
    \/ BridgeCheckpoint
    \/ BridgeRemove
    \/ Crash
    \/ initialize

Spec == Init /\ [][Next]_vars


(***************************************************************************)
(* The WAL alone: WALManager's operations as the engine calls them, with   *)
(* the memtables left out.  A flush may come at any time, as               *)
(* trigger_memtable_flush may, and may find nothing to write.              *)
(***************************************************************************)
\* The record shapes append tells apart: a Put and a Delete.
WALRecordShapes ==
    {WALRecord(0, "Put", "t", "a", "x"), WALRecord(0, "Delete", "t", "a", None)}

\* WALManager::append
WALAppend(t, record) ==
    /\ t \in WALClients
    /\ run.appends < MaxRecords
    /\ AppendBegin(t, record, "append")

\* A flush event reaches the flush task; write_memtable has written the entries.
WALFlush ==
    /\ up /\ bridge.pc = "recv"
    /\ run.flushes < MaxFlushes
    /\ bridge' = [BridgeIdle EXCEPT !.pc = "table"]
    /\ run' = [run EXCEPT !.flushes = @ + 1]
    /\ UNCHANGED <<wal_vars, disk_vars, mem_vars, pc, local, up>>

\* WALManager::load: the state file, recover_state, and the segment mapped.
load ==
    /\ ~up
    /\ \E ws \in recover_state(state_file, wal_files) :
          /\ wal_files[get_current_segment_file_name(ws)] # NoFile
          /\ wal_state' = ws
          /\ state_file' = ws
          /\ mapped' = get_current_segment_file_name(ws)
    /\ up' = TRUE
    /\ run' = [run EXCEPT !.fresh = TRUE]
    /\ UNCHANGED <<wal_files, disk_vars, mem_vars, pc, local, bridge>>

\* A crash while the WAL alone runs
WALCrash == CrashWithin(MaxCrashes)

NextWAL ==
    \/ \E t \in Threads, record \in WALRecordShapes : WALAppend(t, record)
    \/ \E t \in Threads : AppendWrite(t)
    \/ WALFlush
    \/ BridgeCheckpoint
    \/ BridgeRemove
    \/ WALCrash
    \/ load

SpecWAL == Init /\ [][NextWAL]_vars

(***************************************************************************)
(* The WAL alone, with a flush task whose write_memtable can fail.         *)
(***************************************************************************)
\* write_memtable returns an error from find_record, mark_deleted_record,
\* append_record or add_record (lines 215-257): the `?` leaves before the
\* checkpoint, and the flush task goes on to remove_old_wal_segments.
WriteMemtableFails ==
    /\ up /\ bridge.pc = "recv"
    /\ run.flushes < MaxFlushes
    /\ bridge' = [BridgeIdle EXCEPT !.pc = "remove", !.failed = TRUE]
    /\ run' = [run EXCEPT !.flushes = @ + 1]
    /\ UNCHANGED <<wal_vars, disk_vars, mem_vars, pc, local, up>>

\* write_memtable, lines 263-274, when wal_state.save returns an error: the
\* checkpoint fields of the shared state are already assigned, the state
\* file is not written.
CheckpointSaveFails ==
    /\ up /\ bridge.pc = "table"
    /\ bridge.tables = {}
    /\ wal_state' = Checkpoint(wal_state)
    /\ bridge' = [bridge EXCEPT !.pc = "remove", !.failed = TRUE]
    /\ UNCHANGED <<state_file, wal_files, mapped, disk_vars, mem_vars, pc, local,
                   up, run>>

\* append, line 283, when new_segment_file returns an error: the segment id
\* and the offset of the shared state are already assigned (lines 414-420);
\* the open, the resize or the mapping fails, with the new file created or
\* not, and the `?` leaves with the old segment still mapped.
NewSegmentFileFails(t, record) ==
    /\ up /\ Idle(t) /\ ~WalManagerLocked
    /\ t \in WALClients
    /\ run.appends < MaxRecords
    /\ NeedNewSegment(wal_state, record)
    /\ LET rot == new_segment_file(wal_state, wal_files)
       IN /\ wal_state' = rot.wal_state
          /\ wal_files' \in {wal_files, rot.wal_files}
    /\ run' = [run EXCEPT !.appends = @ + 1, !.fresh = FALSE, !.synced = FALSE]
    /\ UNCHANGED <<state_file, mapped, disk_vars, mem_vars, pc, local, bridge, up>>

NextFail ==
    \/ \E t \in Threads, record \in WALRecordShapes : WALAppend(t, record)
    \/ \E t \in Threads, record \in WALRecordShapes : NewSegmentFileFails(t, record)
    \/ \E t \in Threads : AppendWrite(t)
    \/ WALFlush
    \/ WriteMemtableFails
    \/ BridgeCheckpoint
    \/ CheckpointSaveFails
    \/ BridgeRemove
    \/ WALCrash
    \/ load

SpecFail == Init /\ [][NextFail]_vars

(***************************************************************************)
(* Properties of the engine, checked under Spec.                           *)
(***************************************************************************)
\* What the acknowledged calls on a key say get_value answers.
Acknowledged(table, key) ==
    IF run.acked[table][key] \in {"absent", None} THEN NotFound
    ELSE run.acked[table][key]

\* A put_value or delete_value on the key has been called and has not returned.
InFlight(table, key) ==
    \E t \in Threads : local[t].op \in {"put", "delete"}
                       /\ local[t].record.table = table /\ local[t].record.key = key

\* C1: with no crash, in every state where no call on the key is in flight,
\* get_value(table, key) answers the value of the most recent acknowledged
\* put_value on the key, or NotFound if a delete_value was acknowledged last
\* (or nothing was), also between the swap of trigger_flush and the end of
\* the flush task's write.
C1_GetValueReadsLastAcknowledged ==
    \A table \in Tables, key \in Keys :
        (run.crashes = 0 /\ ~InFlight(table, key) /\ GetValueReturns(table, key))
            => get_value(table, key) = Acknowledged(table, key)

\* The last record of the log for the key among those with record_id <= c,
\* as a set: empty if there is none.
LastRecordUpTo(table, key, c) ==
    LET of_key == {i \in 1 .. Len(run.log) :
                      /\ run.log[i].table = table /\ run.log[i].key = key
                      /\ run.log[i].record_id <= c}
    IN IF of_key = {} THEN {} ELSE {run.log[Max(of_key)]}

\* What the disk table holds for the key: the value of the record the index
\* finds, or NotFound if it finds none or the record is flagged Deleted.
DiskAnswer(table, key) ==
    LET position == IndexFind(disk_index[table], key)
    IN IF position = 0 THEN NotFound
       ELSE IF disk_records[table][position].flag = Deleted THEN NotFound
       ELSE disk_records[table][position].value

\* C2: with no crash, whenever last_checkpoint_record_id = c, the disk table
\* holds for every key the effect of the key's last WAL record with
\* record_id <= c: no record the checkpoint covers has its effect in a
\* memtable only.
C2_CheckpointCoversOnlyWrittenRecords ==
    \A table \in Tables, key \in Keys :
        \A r \in LastRecordUpTo(table, key, wal_state.last_checkpoint_record_id) :
            (up /\ run.crashes = 0)
                => DiskAnswer(table, key) =
                       (IF r.value = None THEN NotFound ELSE r.value)

\* C3: after calls that were all acknowledged, flush_wal, a crash with
\* nothing in flight and initialize, get_value answers for every key the
\* value of its most recent acknowledged put, and NotFound after a delete.
C3_RecoveryKeepsAcknowledgedWrites ==
    \A table \in Tables, key \in Keys :
        (/\ up /\ run.crashes = 1 /\ run.clean /\ run.synced /\ run.fresh
         /\ run.unacked = {}
         /\ GetValueReturns(table, key))
            => get_value(table, key) = Acknowledged(table, key)

\* C10: with no crash, after an acknowledged delete_value on a key, and with
\* no later call on the key, get_value answers NotFound for it, whatever the
\* disk table holds.
C10_TombstoneShadowsDisk ==
    \A table \in Tables, key \in Keys :
        (/\ run.crashes = 0 /\ run.acked[table][key] = None
         /\ ~InFlight(table, key)
         /\ GetValueReturns(table, key))
            => get_value(table, key) = NotFound

(***************************************************************************)
(* Properties of the WAL, checked under SpecWAL.                           *)
(***************************************************************************)
\* C4: while the process runs, a step that appends a record gives it the id
\* last_record_id + 1 and makes that the new last_record_id, with or without
\* a rotation, and no other step changes last_record_id: the ids assigned
\* are consecutive.
C4_RecordIdsConsecutive ==
    [][(up /\ up') =>
          IF Len(run.log') = Len(run.log) + 1
          THEN /\ Last(run.log').record_id = wal_state.last_record_id + 1
               /\ wal_state'.last_record_id = wal_state.last_record_id + 1
          ELSE wal_state'.last_record_id = wal_state.last_record_id]_vars

\* Three appends in one run of the process, the last after a rotation.
C4_Witness ==
    /\ up /\ run.crashes = 0
    /\ Len(run.log) = 3 /\ run.log[3].record_id = 3
    /\ wal_state.last_segment_id >= 1
    /\ wal_state.last_segment_file_offset < 2 * RecordSize(run.log[3])

\* C5: after a crash with no call in flight and load, the segment mapped for
\* writing is the segment file with the highest id, and last_segment_id is
\* that id.
C5_LoadMapsLastSegment ==
    (up /\ run.crashes >= 1 /\ run.clean /\ run.fresh)
        => /\ mapped = Max(list_segment_files(wal_files))
           /\ wal_state.last_segment_id = mapped

\* The segments that hold a frame.
SegmentsWithFrames ==
    {s \in list_segment_files(wal_files) : wal_files[s].frames # {}}

\* scan_records over the segments in file-name order: the sequences it can give
RECURSIVE ScanSegments(_, _)
ScanSegments(files, segs) ==
    IF segs = {} THEN {<<>>}
    ELSE {res.records \o rest :
             res \in scan_records(files[Min(segs)]),
             rest \in ScanSegments(files, segs \ {Min(segs)})}

\* C6: after n successful appends with frames in more than one segment, no
\* segment removed, then a first crash and load, last_record_id = n, and the
\* scan of the segment files in file-name order gives the n records
\* appended, in order, with the ids 1..n.
C6_RecoveryCountsAllRecords ==
    (/\ up /\ run.crashes = 1 /\ run.fresh
     /\ run.removed = {}
     /\ Cardinality(SegmentsWithFrames) > 1)
        => /\ wal_state.last_record_id = Len(run.log)
           /\ ScanSegments(wal_files, list_segment_files(wal_files)) = {run.log}
           /\ \A i \in 1 .. Len(run.log) : run.log[i].record_id = i

\* C7: last_segment_file_offset <= WAL_SEGMENT_SIZE while the process runs,
\* and every frame of every segment file ends within WAL_SEGMENT_SIZE: its
\* offset + 4 + the encoded length written.
C7_FramesWithinSegment ==
    /\ up => wal_state.last_segment_file_offset <= WAL_SEGMENT_SIZE
    /\ \A s \in list_segment_files(wal_files) :
          \A f \in wal_files[s].frames :
              f.off + WAL_RECORD_HEADER_SIZE + f.len <= WAL_SEGMENT_SIZE

\* An append passed the rotation test, did not fit and was refused, and a
\* frame stands before it in the segment.
C7_Witness ==
    \E s \in list_segment_files(wal_files) :
        /\ wal_files[s].junk # {}
        /\ wal_files[s].frames # {}
        /\ up /\ mapped = s
        /\ run.appends > Len(run.log)

\* C8: while the process runs, last_checkpoint_record_id <= last_record_id
\* and last_checkpoint_segment_id <= last_segment_id.
C8_CheckpointNeverAboveLast ==
    up => /\ wal_state.last_checkpoint_record_id <= wal_state.last_record_id
          /\ wal_state.last_checkpoint_segment_id <= wal_state.last_segment_id

Generations ==
    UNION {[ks -> Values \cup {None}] : ks \in (SUBSET Keys) \ {{}}}

\* write_memtable, lines 210-258, over the entries `todo` of the memtable in
\* any order (HashMap iteration): the records and leaves it can leave.
RECURSIVE WriteEntries(_, _, _, _)
WriteEntries(records, leaf, memtable, todo) ==
    IF todo = {} THEN {[records |-> records, leaf |-> leaf]}
    ELSE UNION {UNION {WriteEntries(w.records, w.leaf, memtable, todo \ {key}) :
                          w \in {WriteEntry(records, leaf, key, memtable[key], place) :
                                    place \in InsertPlaces(leaf, key)}} :
                   key \in todo}

\* One generation of the table, swapped out and written by write_memtable.
WriteGeneration(table, memtable) ==
    /\ up /\ Quiescent
    /\ run.flushes < MaxRounds
    /\ \E w \in WriteEntries(disk_records[table], disk_index[table], memtable,
                             DOMAIN memtable) :
          /\ disk_records' = [disk_records EXCEPT ![table] = w.records]
          /\ disk_index' = [disk_index EXCEPT ![table] = w.leaf]
    /\ UNCHANGED <<btree_index, tree_run, write_tasks, try_lock, table_segment>>
    /\ run' = [run EXCEPT
                  !.flushes = @ + 1,
                  !.acked[table] = [k \in Keys |-> IF k \in DOMAIN memtable
                                                   THEN memtable[k] ELSE @[k]]]
    /\ UNCHANGED <<wal_vars, mem_vars, pc, local, bridge, up>>

NextDisk ==
    \E table \in Tables, memtable \in Generations : WriteGeneration(table, memtable)

SpecDisk == Init /\ [][NextDisk]_vars

\* The positions of the records of the key, in the order they were appended.
RecordsOf(table, key) ==
    {p \in 1 .. Len(disk_records[table]) : disk_records[table][p].key = key}

\* C11: once a generation holding a value for a key has been written, and
\* until a later generation holds the key again, the index lookup for the
\* key gives the position of the key's newest record, every older record of
\* the key is flagged Deleted, and the record read through the index holds
\* the newest value.
C11_IndexFindsNewestRecord ==
    \A table \in Tables, key \in Keys :
        (up /\ Quiescent /\ run.acked[table][key] \in Values
            /\ RecordsOf(table, key) # {})
            => /\ IndexFind(disk_index[table], key) = Max(RecordsOf(table, key))
               /\ \A p \in RecordsOf(table, key) \ {Max(RecordsOf(table, key))} :
                     disk_records[table][p].flag = Deleted
               /\ DiskAnswer(table, key) = run.acked[table][key]

\* The memtables that trigger_flush has swapped out of memtable_map.
SwappedOut ==
    {h \in 1 .. Len(memtables) : \A table \in DOMAIN memtable_map : memtable_map[table] # h}

\* C12: while the process runs, a memtable that has been swapped out of the
\* active map is changed by no step, except that write_memtable clears it:
\* no put or delete inserts into it.
C12_SwappedOutMemtableIsReadOnly ==
    [][(up /\ up') =>
          \A h \in SwappedOut :
              memtables'[h] = memtables[h] \/ memtables'[h] = HashMemtableNew]_vars

\* C13: a put that called trigger_flush because of the hard limit does not
\* return to its caller from trigger_flush's compare-and-swap: it goes on
\* with the flush, and then retries.
C13_PutNeverReturnsFlushError ==
    [][\A t \in Threads :
          (up /\ up' /\ pc[t] = "tf_cas" /\ local[t].ret = "put")
              => pc'[t] # "idle"]_vars

\* C15: while the process runs, memtable_current_size is never above the
\* memtable size hard limit.
C15_SizeWithinHardLimit ==
    up => memtable_current_size <= HARD_LIMIT

(***************************************************************************)
(* Concurrent puts against a small hard limit, with every task scheduled:  *)
(* two clients put the same entry again and again, the flush task runs,    *)
(* and nothing crashes.                                                    *)
(***************************************************************************)
MaxLivePuts == 3

\* What the concurrent clients put.
LiveKeys == {"a"}
LiveValues == {"x"}

\* DBEngine::put_value called by one of the concurrent clients
LivePut(t, table, key, value) ==
    /\ t \in WALClients
    /\ run.appends < MaxLivePuts
    /\ AppendBegin(t, WALRecord(0, "Put", table, key, value), "put")

\* The next step of a call that thread t has begun.
ClientStep(t) ==
    \/ AppendWrite(t)
    \/ PutCheckBlocked(t)
    \/ PutSize(t)
    \/ PutGetMemtable(t)
    \/ PutInsert(t)
    \/ PutSub(t)
    \/ TfCas(t)
    \/ TfReset(t)
    \/ TfSwap(t)
    \/ TfTake(t)
    \/ TfSend(t)
    \/ TfUnblock(t)

\* The next step of the flush task.
BridgeStep ==
    \/ BridgeRecv
    \/ BridgeLock
    \/ BridgeEntry
    \/ BridgeClear
    \/ BridgeCheckpoint
    \/ BridgeRemove

NextLive ==
    \/ \E t \in Threads, table \in Tables, key \in LiveKeys, value \in LiveValues :
          LivePut(t, table, key, value)
    \/ \E t \in Threads : ClientStep(t)
    \/ BridgeStep

\* tokio runs every spawned task that can take a step: each client's call
\* and the flush task go on as long as they are not waiting.
Fairness ==
    /\ \A t \in Threads : WF_vars(ClientStep(t))
    /\ WF_vars(BridgeStep)

SpecLive == Init /\ [][NextLive]_vars /\ Fairness

InFlush ==
    {t \in Threads : pc[t] \in {"tf_reset", "tf_swap", "tf_take", "tf_send", "tf_unblock"}}

\* C16: while the process runs, at most one thread is between setting and
\* clearing block_write; a trigger_flush that finds block_write set returns
\* without changing the memtable maps, memtable_current_size or the channel;
\* and the trigger_flush that won leaves block_write cleared when it returns.
C16_OneFlushAtATime ==
    [][(up /\ up') =>
          /\ Cardinality(InFlush) <= 1
          /\ Cardinality(InFlush') <= 1
          /\ \A t \in Threads :
                (pc[t] = "tf_cas" /\ block_write /\ pc'[t] # "tf_cas")
                    => /\ pc'[t] = "idle"
                       /\ UNCHANGED <<memtables, memtable_map, flushing_memtable_map,
                                      memtable_current_size, channel, block_write>>
          /\ \A t \in Threads :
                (pc[t] = "tf_unblock" /\ pc'[t] # "tf_unblock") => ~block_write']_vars

\* A trigger_flush is about to fail its compare-and-swap while another
\* thread is inside its flush.
C16_Witness ==
    /\ up
    /\ \E t \in Threads, u \in InFlush :
          t # u /\ pc[t] = "tf_cas" /\ block_write

\* The checkpoint a WAL state holds.
CheckpointOf(ws) ==
    <<ws.last_checkpoint_record_id, ws.last_checkpoint_segment_id>>

\* C17: while the process runs, the checkpoint changes only in the step of
\* write_memtable that follows the writing of every table of the event, and
\* the new checkpoint is in the state file; a write_memtable that fails
\* leaves the checkpoint as it was, and the removal that follows it deletes
\* only segments below the checkpoint held before.
C17_CheckpointOnlyAfterWrite ==
    [][(up /\ up') =>
          /\ (CheckpointOf(wal_state') # CheckpointOf(wal_state))
                => /\ bridge.pc = "table" /\ bridge.tables = {}
                   /\ ~bridge'.failed
                   /\ state_file' = wal_state'
          /\ (bridge'.failed /\ ~bridge.failed)
                => CheckpointOf(wal_state') = CheckpointOf(wal_state)
          /\ (bridge.failed /\ ~bridge'.failed)
                => \A s \in SegIds :
                      (wal_files[s] # NoFile /\ wal_files'[s] = NoFile)
                          => s < state_file.last_checkpoint_segment_id]_vars

\* The events trigger_flush has made and the flush task has not finished,
\* oldest first: the one being handled, the ones in the channel, the one a
\* trigger_flush is about to send.
PendingEvents ==
    (IF bridge.pc \in {"table", "entries"} /\ bridge.event # EmptyMap
     THEN <<bridge.event>> ELSE <<>>)
    \o channel
    \o (IF \E t \in Threads : pc[t] = "tf_send"
        THEN <<local[CHOOSE t \in Threads : pc[t] = "tf_send"].event>> ELSE <<>>)

\* C18: while the process runs, an event is taken from the channel only by
\* the flush task waiting at recv with nothing in hand, it is the oldest
\* event of the channel, and a send adds its event at the end; the pending
\* events are in the order their memtables were swapped out.
C18_EventsHandledInOrder ==
    [][(up /\ up') =>
          /\ (Len(channel') < Len(channel))
                => /\ bridge = BridgeIdle
                   /\ bridge'.pc = "table"
                   /\ bridge'.event = Head(channel)
                   /\ channel' = Tail(channel)
          /\ (bridge.pc # "recv") => (bridge'.event = bridge.event \/ bridge' = BridgeIdle)
          /\ (Len(channel') > Len(channel))
                => \E t \in Threads :
                      pc[t] = "tf_send" /\ channel' = Append(channel, local[t].event)
          /\ \A i \in 1 .. Len(PendingEvents), j \in 1 .. Len(PendingEvents) :
                \A table \in DOMAIN PendingEvents[i] \cap DOMAIN PendingEvents[j] :
                    i < j => PendingEvents[i][table] < PendingEvents[j][table]]_vars

\* An event waits in the channel while the flush task is still handling the
\* one sent before it.
C18_Witness ==
    up /\ channel # <<>> /\ bridge.pc \in {"table", "entries", "remove"}

\* What append works on: the shared WAL state and the segment mapped for
\* writing.
WriteTarget ==
    <<wal_state.last_record_id, wal_state.last_segment_id,
      wal_state.last_segment_file_offset, mapped>>

\* C19: while the process runs, an append that returns an error leaves
\* last_record_id, last_segment_id, last_segment_file_offset and the mapped
\* segment as they were: a step of append that adds no record to the log and
\* ends the call changes none of them, and no append fails after it rotated.
C19_FailedAppendChangesNothing ==
    [][(up /\ up') =>
          /\ (run.appends' = run.appends + 1 /\ run.log' = run.log
                 /\ \A t \in Threads : pc'[t] # "append_write")
                => WriteTarget' = WriteTarget
          /\ \A t \in Threads :
                (pc[t] = "append_write" /\ pc'[t] # "append_write")
                    => run.log' # run.log]_vars

(***************************************************************************)
(* scan_records on the segments a crash can leave: records were appended,  *)
(* and the payloads of some frames did not reach the disk whole, while     *)
(* their headers did.  The WAL is then loaded and used as in SpecWAL.      *)
(***************************************************************************)
MaxScanFrames == 2

\* The WAL after the records rs are appended, one after another, to an
\* empty WAL.
RECURSIVE AppendAll(_)
AppendAll(rs) ==
    IF rs = <<>>
    THEN [wal_state |-> DefaultWALState,
          wal_files |-> [s \in SegIds |-> IF s = 0 THEN EmptyFile ELSE NoFile],
          mapped |-> 0, log |-> <<>>]
    ELSE LET before == AppendAll(SubSeq(rs, 1, Len(rs) - 1))
             r == rs[Len(rs)]
             rot == IF NeedNewSegment(before.wal_state, r)
                    THEN new_segment_file(before.wal_state, before.wal_files)
                    ELSE [wal_state |-> before.wal_state,
                          wal_files |-> before.wal_files, mapped |-> before.mapped]
             res == append_write(rot.wal_state, rot.wal_files, rot.mapped, r)
         IN [wal_state |-> res.wal_state, wal_files |-> res.wal_files,
             mapped |-> rot.mapped,
             log |-> IF res.ok THEN Append(before.log, res.rec) ELSE before.log]

\* The file with the payloads of the frames of the records `ids` replaced by
\* bytes that do not decode; the headers stay.
RECURSIVE TornPayloads(_, _)
TornPayloads(file, ids) ==
    IF file = NoFile \/ \A f \in file.frames : f.rec.record_id \notin ids
    THEN file
    ELSE LET f == CHOOSE g \in file.frames : g.rec.record_id \in ids
         IN TornPayloads(Overwrite(file, f.off + WAL_RECORD_HEADER_SIZE, FrameEnd(f)),
                         ids)

\* The state a crash leaves after up to MaxScanFrames appends, with any of
\* the frames torn.
InitScan ==
    \E n \in 1 .. MaxScanFrames :
    \E rs \in [1 .. n -> WALRecordShapes], torn \in SUBSET (1 .. n) :
        LET wal == AppendAll(rs)
        IN /\ state_file = DefaultWALState
           /\ wal_files = [s \in SegIds |-> TornPayloads(wal.wal_files[s], torn)]
           /\ disk_records = [t \in Tables |-> <<>>]
           /\ disk_index = [t \in Tables |-> <<>>]
           /\ btree_index = BTreeIndexNew
           /\ tree_run = TreeRunNew
           /\ write_tasks = WriteTasksNew
           /\ try_lock = TryLockNew
           /\ table_segment = TableSegmentNew
           /\ wal_state = DefaultWALState
           /\ mapped = 0
           /\ memtables = NewMemtableManager.memtables
           /\ memtable_map = NewMemtableManager.memtable_map
           /\ flushing_memtable_map = EmptyMap
           /\ flushing_lock = "free"
           /\ memtable_current_size = 0
           /\ block_write = FALSE
           /\ channel = <<>>
           /\ pc = [t \in Threads |-> "idle"]
           /\ local = [t \in Threads |-> NoLocal]
           /\ bridge = BridgeIdle
           /\ up = FALSE
           /\ run = [appends |-> n, flushes |-> 0, crashes |-> 1, checkpoints |-> 0,
                     clean |-> TRUE, inflight |-> FALSE, fresh |-> FALSE,
                     synced |-> FALSE, removed |-> {}, unacked |-> {},
                     at_crash |-> wal.wal_state,
                     acked |-> [t \in Tables |-> [k \in Keys |-> "absent"]],
                     log |-> wal.log]

SpecScan == InitScan /\ [][NextWAL]_vars

\* The records of the frames that follow one another from `offset` on, up
\* to the first place where no whole, decodable frame begins.
RECURSIVE ContiguousRecords(_, _)
ContiguousRecords(file, offset) ==
    IF \E f \in file.frames : f.off = offset
    THEN LET f == CHOOSE g \in file.frames : g.off = offset
         IN <<f.rec>> \o ContiguousRecords(file, FrameEnd(f))
    ELSE <<>>

\* C20: for every segment file, scan_records returns the records of the
\* frames before the first frame that is undecodable or incomplete, and no
\* record located after it.
C20_ScanStopsAtFirstBadFrame ==
    \A s \in SegIds :
        wal_files[s] # NoFile
            => \A res \in scan_records(wal_files[s]) :
                  res.records = ContiguousRecords(wal_files[s], 0)

\* C21: a recovery that follows another recovery, with no append since,
\* leaves the WALGlobalState the first one left and the state file as it
\* was.
C21_RecoveryTwiceIsRecoveryOnce ==
    [][(~up /\ up' /\ run.fresh /\ run.crashes >= 2)
          => (wal_state' = run.at_crash /\ state_file' = state_file)]_vars

\* The WAL holds records, was recovered, and is about to be recovered again
\* with nothing appended since.
C21_Witness ==
    ~up /\ run.fresh /\ run.crashes >= 2 /\ run.at_crash.last_record_id >= 2

(***************************************************************************)
(* BTreeIndex on its own: inserts into the index of one table.  The order  *)
(* of the tree is a field of its metadata; the runs take it from Orders.   *)
(***************************************************************************)
MaxInserts == 5
TreeKeys == {"L", "a", "b", "c"}
Orders == {ORDER, ORDER + 2}

\* the inserts that returned Ok, oldest first
Inserted == SelectSeq(tree_run.calls, LAMBDA c : c.ok)

\* the position given by the latest successful insert of the key, 0 for none
LatestInserted(key) ==
    LET at == {i \in 1 .. Len(Inserted) : Inserted[i].key = key}
    IN IF at = {} THEN 0 ELSE Inserted[Max(at)].position

\* index.insert(key, position), with the positions handed out in turn
BTreeInsert(key) ==
    /\ tree_run.initialized = "ok"
    /\ Len(tree_run.calls) < MaxInserts
    /\ \E o \in insert(btree_index, key, Len(tree_run.calls) + 1) :
          /\ btree_index' = o.ix
          /\ tree_run' = [tree_run EXCEPT !.calls =
                 Append(@, [key |-> key, position |-> Len(tree_run.calls) + 1,
                            ok |-> o.ok])]
    /\ UNCHANGED <<state_file, wal_files, disk_records, disk_index, wal_state,
                   mapped, mem_vars, pc, local, bridge, up, run, write_tasks,
                   try_lock, table_segment>>

\* index.initialize(), as the table is opened
BTreeInitialize ==
    /\ tree_run.initialized = "no"
    /\ LET r == initialize_index(btree_index)
       IN /\ btree_index' = r.ix
          /\ tree_run' = [tree_run EXCEPT
                 !.initialized = IF r.ok THEN "ok" ELSE "err",
                 !.calls = IF r.ok /\ r.ix.blocks = <<>> THEN <<>> ELSE @]
    /\ UNCHANGED <<state_file, wal_files, disk_records, disk_index, wal_state,
                   mapped, mem_vars, pc, local, bridge, up, run, write_tasks,
                   try_lock, table_segment>>

\* One leaf with one entry, as an earlier run of the program left it.
StoredLeaf == (CHOOSE o \in insert(BTreeIndexNew, "a", 1) : o.ok).ix

\* The index files the program can find: none, an empty index of either
\* order, the stored leaf.
SoundFiles ==
    {[metadata_file |-> NoMetadataFile, blocks |-> <<>>],
     [metadata_file |-> StoredLeaf.metadata_file, blocks |-> StoredLeaf.blocks]}
    \cup {[metadata_file |-> [BTreeMetadataDefault EXCEPT !.order = order],
           blocks |-> <<>>] : order \in Orders}

\* Index files whose metadata does not decode.
UndecodableFiles ==
    {[metadata_file |-> GarbageMetadata, blocks |-> StoredLeaf.blocks]}

\* Damaged index files: metadata at odds with itself, a root past the end
\* of the file, no segment file, a root block that cannot be read or
\* decoded.
DamagedFiles ==
    {[metadata_file |-> [BTreeMetadataDefault EXCEPT !.root_position = 0],
      blocks |-> StoredLeaf.blocks],
     [metadata_file |-> [BTreeMetadataDefault EXCEPT !.next_offset = NODE_SIZE],
      blocks |-> StoredLeaf.blocks],
     [metadata_file |-> [StoredLeaf.metadata_file EXCEPT
                            !.root_position = NODE_SIZE,
                            !.next_offset = 2 * NODE_SIZE],
      blocks |-> StoredLeaf.blocks],
     [metadata_file |-> StoredLeaf.metadata_file, blocks |-> <<>>]}
    \cup {[metadata_file |-> StoredLeaf.metadata_file, blocks |-> <<block>>]
          : block \in {ZeroBlock, HugeBlock, BeyondBlock, GarbageBlock}}

InitTree ==
    /\ InitEngine
    /\ \E files \in SoundFiles \cup DamagedFiles \cup UndecodableFiles :
          /\ btree_index = [metadata |-> BTreeMetadataDefault,
                            metadata_file |-> files.metadata_file,
                            blocks |-> files.blocks]
          /\ tree_run = [TreeRunNew EXCEPT
                 !.damaged = files \in DamagedFiles,
                 !.calls = IF files.blocks = <<>> THEN <<>>
                           ELSE <<[key |-> "a", position |-> 1, ok |-> TRUE]>>]
    /\ write_tasks = WriteTasksNew
    /\ try_lock = TryLockNew
    /\ table_segment = TableSegmentNew

NextTree ==
    \/ BTreeInitialize
    \/ \E key \in TreeKeys : BTreeInsert(key)

SpecTree == InitTree /\ [][NextTree]_vars

\* a tree whose root is a leaf, or that has no root: no split has happened
RootIsLeaf ==
    /\ tree_run.initialized = "ok"
    /\ \/ btree_index.metadata.root_position = NoPosition
       \/ read_node(btree_index,
                    btree_index.metadata.root_position).node.node_type = "Leaf"

\* C22: as long as no insert has split a node, find(k) gives the position of
\* the latest successful insert of k, and None for a key never inserted.
C22_FindGivesLatestInsert ==
    RootIsLeaf => \A key \in TreeKeys : find(btree_index, key) = LatestInserted(key)

\* the leaf keys met by an in-order traversal from the node at `pos`
RECURSIVE InOrderKeys(_, _)
InOrderKeys(ix, pos) ==
    LET r == read_node(ix, pos)
    IN IF ~r.ok THEN <<>>
       ELSE IF r.node.node_type = "Leaf"
       THEN [i \in 1 .. Len(r.node.leaf_entries) |-> r.node.leaf_entries[i].key]
       ELSE LET children == <<r.node.leftmost_child>> \o
                    [i \in 1 .. Len(r.node.internal_entries) |->
                        r.node.internal_entries[i].child_position]
                RECURSIVE Over(_)
                Over(i) == IF i > Len(children) THEN <<>>
                           ELSE InOrderKeys(ix, children[i]) \o Over(i + 1)
            IN Over(1)

\* the positions of the nodes of the tree below and at `pos`
RECURSIVE NodesBelow(_, _)
NodesBelow(ix, pos) ==
    LET r == read_node(ix, pos)
    IN IF ~r.ok \/ r.node.node_type = "Leaf" THEN {pos}
       ELSE {pos} \cup NodesBelow(ix, r.node.leftmost_child)
            \cup UNION {NodesBelow(ix, r.node.internal_entries[i].child_position)
                        : i \in 1 .. Len(r.node.internal_entries)}

\* the positions of the nodes reachable from the root
TreeNodes ==
    IF btree_index.metadata.root_position = NoPosition THEN {}
    ELSE NodesBelow(btree_index, btree_index.metadata.root_position)

NonDecreasing(keys) ==
    \A i \in 1 .. Len(keys) - 1 : KeyRank(keys[i]) <= KeyRank(keys[i + 1])

KeySet(keys) == {keys[i] : i \in 1 .. Len(keys)}

\* the child to the left of the i-th separator of an internal node
LeftOf(node, i) ==
    IF i = 1 THEN node.leftmost_child
    ELSE node.internal_entries[i - 1].child_position

\* every insert so far returned Ok
AllInsertsOk == \A i \in 1 .. Len(tree_run.calls) : tree_run.calls[i].ok

\* C23: after any sequence of inserts, an in-order traversal from the root
\* visits the leaf keys in non-decreasing order, every internal node has a
\* leftmost child besides the child of each separator, and every separator is
\* greater than all keys in the subtree to its left and not greater than any
\* key in the subtree it points to.
C23_SeparatorsBoundSubtrees ==
    (tree_run.initialized = "ok" /\ AllInsertsOk
     /\ btree_index.metadata.root_position # NoPosition)
    => /\ NonDecreasing(InOrderKeys(btree_index,
                                    btree_index.metadata.root_position))
       /\ \A pos \in TreeNodes :
             LET r == read_node(btree_index, pos)
                 node == r.node
             IN /\ r.ok
                /\ node.node_type = "Internal"
                   => /\ node.leftmost_child # NoPosition
                      /\ node.internal_entries # <<>>
                      /\ \A i \in 1 .. Len(node.internal_entries) :
                            LET sep == node.internal_entries[i]
                            IN /\ \A k \in KeySet(InOrderKeys(btree_index,
                                                        LeftOf(node, i))) :
                                     KeyRank(k) < KeyRank(sep.key)
                               /\ \A k \in KeySet(InOrderKeys(btree_index,
                                                        sep.child_position)) :
                                     KeyRank(sep.key) <= KeyRank(k)

\* the nodes stored in the index file
StoredNodes ==
    {btree_index.blocks[b] : b \in 1 .. Len(btree_index.blocks)}
    \ {ZeroBlock, HugeBlock, BeyondBlock, GarbageBlock}

\* a stored node with two long keys more: too large for a block
Oversized(node) ==
    IF node.node_type = "Leaf"
    THEN [node EXCEPT !.leaf_entries =
             @ \o <<[key |-> "L", position |-> 1], [key |-> "L", position |-> 2]>>]
    ELSE [node EXCEPT !.internal_entries =
             @ \o <<[key |-> "L", child_position |-> 0],
                    [key |-> "L", child_position |-> 0]>>]

\* C24: every node stored by write_node or update_node has an encoded size
\* of at most NODE_SIZE - 4 and lies in a block of its own, one block being
\* given out for every NODE_SIZE of next_offset; every position reachable
\* from the root reads back as a node; and write_node and update_node called
\* with a node whose encoding is larger return an error and leave the index
\* as it was.
C24_StoredNodesFitTheirBlock ==
    tree_run.initialized = "ok"
    => /\ \A node \in StoredNodes :
             /\ NodeEncodedLen(node) <= NODE_SIZE - 4
             /\ NodeEncodedLen(Oversized(node)) > NODE_SIZE - 4
             /\ LET w == write_node(btree_index, Oversized(node))
                IN ~w.ok /\ w.ix = btree_index
             /\ \A pos \in TreeNodes :
                   LET u == update_node(btree_index, pos, Oversized(node))
                   IN ~u.ok /\ u.ix = btree_index
       /\ btree_index.metadata.next_offset = Len(btree_index.blocks) * NODE_SIZE
       /\ \A pos \in TreeNodes :
             pos % NODE_SIZE = 0 /\ read_node(btree_index, pos).ok

\* C24: an insert was rejected for the size of a node, and a later insert
\* was taken
C24_Witness ==
    /\ tree_run.initialized = "ok"
    /\ \E i \in 1 .. Len(tree_run.calls) - 1 :
          ~tree_run.calls[i].ok /\ tree_run.calls[i + 1].ok
    /\ Len(btree_index.blocks) >= 2

\* C25: when initialize finds metadata at odds with itself or a root that
\* cannot be read or decoded, it succeeds, removes the index files and saves
\* the default metadata; afterwards find gives None for every key until a key
\* is inserted, the first insert succeeds and the key inserted is found.
C25_DamagedIndexStartsEmpty ==
    /\ [][(tree_run.damaged /\ tree_run.initialized = "no")
             => /\ tree_run'.initialized = "ok"
                /\ btree_index'.blocks = <<>>
                /\ btree_index'.metadata_file = BTreeMetadataDefault
                /\ btree_index'.metadata = BTreeMetadataDefault
                /\ \A key \in TreeKeys : find(btree_index', key) = 0]_vars
    /\ []((tree_run.damaged /\ tree_run.initialized = "ok"
           /\ tree_run.calls # <<>>)
             => /\ tree_run.calls[1].ok
                /\ Len(tree_run.calls) = 1
                   => \A key \in TreeKeys :
                         find(btree_index, key)
                            = IF key = tree_run.calls[1].key THEN 1 ELSE 0)

\* C25: an index whose files were damaged has been initialized and has taken
\* inserts enough to split its root
C25_Witness ==
    /\ tree_run.damaged
    /\ tree_run.initialized = "ok"
    /\ AllInsertsOk
    /\ ~RootIsLeaf

(***************************************************************************)
(* write_node called by several tasks on one index: the steps between its  *)
(* awaits, each under the lock the code holds there.                       *)
(***************************************************************************)
MaxWrites == 4

WriteOthers ==
    <<state_file, wal_files, disk_records, disk_index, wal_state, mapped,
      mem_vars, pc, local, bridge, up, run, tree_run, try_lock, table_segment>>

\* the node a task writes: a leaf of its own, or one too large for a block
NodeOfCall(n, large) ==
    IF large THEN Oversized([new_leaf EXCEPT !.parent = n])
    ELSE [new_leaf EXCEPT !.leaf_entries = <<[key |-> "a", position |-> n]>>]

\* write_node, lines 592-633: the node is encoded and its size checked, then
\* the offset is reserved under the metadata lock
WriteNodeReserve(t, large) ==
    /\ write_tasks.task[t].pc = "idle"
    /\ Len(write_tasks.granted) + write_tasks.rejected < MaxWrites
    /\ LET node == NodeOfCall(Len(write_tasks.granted) + 1, large)
       IN IF ~FitsBlock(node)
          THEN /\ write_tasks' = [write_tasks EXCEPT !.rejected = @ + 1]
               /\ UNCHANGED btree_index
          ELSE /\ btree_index' = [btree_index EXCEPT
                                     !.metadata = ReserveOffset(@)]
               /\ write_tasks' = [write_tasks EXCEPT
                     !.task[t] = [NoWrite EXCEPT
                                     !.pc = "reserved", !.node = node,
                                     !.offset = btree_index.metadata.next_offset],
                     !.granted = Append(@, [offset |->
                                               btree_index.metadata.next_offset,
                                            node |-> node, done |-> FALSE])]
    /\ UNCHANGED WriteOthers

\* the call of `granted` that was given the offset
CallAt(granted, offset) ==
    Min({i \in 1 .. Len(granted) : granted[i].offset = offset})

\* write_node, lines 639-674: size, node and padding under the file lock
WriteNodeIO(t) ==
    /\ write_tasks.task[t].pc = "reserved"
    /\ btree_index' = [btree_index EXCEPT !.blocks =
           WriteBlock(@, write_tasks.task[t].offset, write_tasks.task[t].node)]
    /\ write_tasks' = [write_tasks EXCEPT
           !.task[t].pc = "written",
           !.granted[CallAt(write_tasks.granted, write_tasks.task[t].offset)].done
               = TRUE]
    /\ UNCHANGED WriteOthers

\* save_metadata, lines 424-430: the metadata is encoded under its lock
SaveMetadataEncode(t) ==
    /\ write_tasks.task[t].pc = "written"
    /\ write_tasks' = [write_tasks EXCEPT
           !.task[t].pc = "encoded",
           !.task[t].encoded = btree_index.metadata]
    /\ UNCHANGED <<btree_index, WriteOthers>>

\* save_metadata, lines 443-448: the file is written under no lock; then
\* write_node returns the position
SaveMetadataWrite(t) ==
    /\ write_tasks.task[t].pc = "encoded"
    /\ btree_index' = [btree_index EXCEPT
                          !.metadata_file = write_tasks.task[t].encoded]
    /\ write_tasks' = [write_tasks EXCEPT !.task[t] = NoWrite]
    /\ UNCHANGED WriteOthers

NextAlloc ==
    \E t \in WriteTasks :
        \/ \E large \in BOOLEAN : WriteNodeReserve(t, large)
        \/ WriteNodeIO(t)
        \/ SaveMetadataEncode(t)
        \/ SaveMetadataWrite(t)

SpecAlloc == Init /\ [][NextAlloc]_vars

\* C26: any two write_node calls, however their steps interleave, are given
\* different offsets, each a multiple of NODE_SIZE, so that every node written
\* lies in a block of its own and stays there; and next_offset never
\* decreases.
C26_WriteNodeOffsetsNeverCollide ==
    /\ [](\A i, j \in 1 .. Len(write_tasks.granted) :
             /\ write_tasks.granted[i].offset % NODE_SIZE = 0
             /\ write_tasks.granted[i].offset < btree_index.metadata.next_offset
             /\ i # j => write_tasks.granted[i].offset
                            # write_tasks.granted[j].offset
             /\ write_tasks.granted[i].done
                => read_node(btree_index, write_tasks.granted[i].offset).node
                      = write_tasks.granted[i].node)
    /\ [][btree_index'.metadata.next_offset
             >= btree_index.metadata.next_offset]_vars

\* C26: three calls hold reserved offsets at once, none written yet
C26_Witness ==
    /\ \A t \in WriteTasks : write_tasks.task[t].pc = "reserved"
    /\ Len(write_tasks.granted) = 3

(***************************************************************************)
(* TryLock shared by tasks: each task tries the lock, and when it gets it  *)
(* loads the shared value, stores the value plus one and lets the lock go. *)
(***************************************************************************)
MaxAttempts == 6
MaxSections == 3

LockOthers ==
    <<state_file, wal_files, disk_records, disk_index, wal_state, mapped,
      mem_vars, pc, local, bridge, up, run, btree_index, tree_run, write_tasks,
      table_segment>>

\* try_lock_guard (via = "guard") and try_lock (via = "bool"): one swap
TryAcquire(t, via) ==
    /\ try_lock.task[t].pc = "out"
    /\ try_lock.attempts < MaxAttempts
    /\ try_lock.sections < MaxSections
    /\ LET s == swap(try_lock.locked, TRUE)
       IN try_lock' = [try_lock EXCEPT
              !.locked = s.new,
              !.attempts = @ + 1,
              !.sections = IF s.old THEN @ ELSE @ + 1,
              !.task[t] = IF s.old THEN [@ EXCEPT !.last = "refused"]
                          ELSE [@ EXCEPT !.pc = "held", !.via = via,
                                         !.last = "acquired"]]
    /\ UNCHANGED LockOthers

\* shared_value.load
LoadShared(t) ==
    /\ try_lock.task[t].pc = "held"
    /\ try_lock' = [try_lock EXCEPT !.task[t].pc = "loaded",
                                    !.task[t].current = try_lock.shared_value]
    /\ UNCHANGED LockOthers

\* shared_value.store(current + 1)
StoreShared(t) ==
    /\ try_lock.task[t].pc = "loaded"
    /\ try_lock' = [try_lock EXCEPT !.task[t].pc = "stored",
                                    !.shared_value = try_lock.task[t].current + 1]
    /\ UNCHANGED LockOthers

\* the guard is dropped, or unlock is called after try_lock returned true
Release(t) ==
    /\ try_lock.task[t].pc = "stored"
    /\ try_lock' = [try_lock EXCEPT
           !.locked = unlock(@),
           !.releases = @ + 1,
           !.task[t] = [NoSection EXCEPT !.last = try_lock.task[t].last]]
    /\ UNCHANGED LockOthers

NextLock ==
    \E t \in LockTasks :
        \/ \E via \in {"guard", "bool"} : TryAcquire(t, via)
        \/ LoadShared(t)
        \/ StoreShared(t)
        \/ Release(t)

SpecLock == Init /\ [][NextLock]_vars

\* the tasks that hold the lock
Holders(lock) == {t \in LockTasks : lock.task[t].pc # "out"}

\* C27: at most one task holds the lock at a time; while one holds it, every
\* try_lock and try_lock_guard of any task fails; and the sections run under
\* the lock lose no increment: the shared value is the number of sections
\* that have stored.
C27_OneHolderAtATime ==
    /\ [](/\ Cardinality(Holders(try_lock)) <= 1
          /\ try_lock.shared_value
                = try_lock.releases
                  + Cardinality({t \in LockTasks : try_lock.task[t].pc = "stored"}))
    /\ [][(Holders(try_lock) # {} /\ try_lock'.attempts = try_lock.attempts + 1)
             => /\ Holders(try_lock') = Holders(try_lock)
                /\ \E t \in LockTasks \ Holders(try_lock) :
                      try_lock'.task[t].last = "refused"]_vars

\* C27: a task is between its load and its store after another task was
\* refused and a section was completed
C27_Witness ==
    /\ \E t \in LockTasks : try_lock.task[t].pc = "loaded"
    /\ \E t \in LockTasks : try_lock.task[t].last = "refused"
    /\ try_lock.releases >= 1

\* C28: once the holder has called unlock or dropped its guard the lock is
\* free and the next try_lock or try_lock_guard succeeds; a try that fails
\* gives no guard and leaves the lock held.
C28_ReleaseLetsTheNextIn ==
    /\ [](Holders(try_lock) = {} => ~try_lock.locked)
    /\ [][try_lock'.attempts = try_lock.attempts + 1
             => IF Holders(try_lock) = {}
                THEN Cardinality(Holders(try_lock')) = 1
                ELSE try_lock'.locked /\ Holders(try_lock') = Holders(try_lock)]_vars

\* C28: a lock released twice is held again, and a try has failed meanwhile
C28_Witness ==
    /\ try_lock.releases >= 2
    /\ Holders(try_lock) # {}
    /\ \E t \in LockTasks : try_lock.task[t].last = "refused"

\* the frames of the appends made so far that lie in the segment files
FramesOnDisk(files) ==
    UNION {{[segment |-> id, off |-> f.off, end |-> FrameEnd(f)]
               : f \in files[id].frames}
           : id \in {i \in SegIds : files[i] # NoFile}}

\* the step is an append that succeeds: one more record in the log
AppendSucceeds == Len(run'.log) = Len(run.log) + 1

\* the step is the rotation at the head of an append
AppendRotates == up /\ up' /\ wal_state'.last_segment_id # wal_state.last_segment_id

\* C29: the frame of a successful append B begins at or after the end of the
\* frame of every earlier successful append A in the same segment, or lies
\* in a segment with a greater id than A's, so that no two frames overlap;
\* and when append rotates, the new segment has the old id plus one and the
\* record's frame begins at offset 0 of the new segment.
C29_FramesFollowOneAnother ==
    /\ [][AppendSucceeds
             => \A a \in FramesOnDisk(wal_files) :
                   \/ a.segment < mapped'
                   \/ /\ a.segment = mapped'
                      /\ a.end <= wal_state.last_segment_file_offset]_vars
    /\ [][AppendRotates
             => /\ wal_state'.last_segment_id = wal_state.last_segment_id + 1
                /\ mapped' = wal_state'.last_segment_id
                /\ wal_state'.last_segment_file_offset = 0
                /\ wal_files'[mapped'] = EmptyFile]_vars
    /\ [](\A t \in Threads :
             (up /\ pc[t] = "append_write")
                => wal_state.last_segment_file_offset = 0)

(***************************************************************************)
(* append_record called again and again on the tables of one manager.      *)
(***************************************************************************)
MaxSegmentAppends == 6

\* the lengths of the encoded payloads: short, a quarter of a page, and the
\* longest whose frame takes a whole page
PayloadLens ==
    {1, DISKTABLE_PAGE_SIZE \div 4,
     DISKTABLE_PAGE_SIZE - TABLE_SEGMENT_RECORD_HEADER_SIZE}

AppendRecord(table, payload_len) ==
    /\ Len(table_segment.frames[table]) < MaxSegmentAppends
    /\ table_segment' = append_record(table_segment, table, payload_len).ts
    /\ UNCHANGED <<state_file, wal_files, disk_records, disk_index, wal_state,
                   mapped, mem_vars, pc, local, bridge, up, run, btree_index,
                   tree_run, write_tasks, try_lock>>

NextSegment ==
    \E table \in Tables, payload_len \in PayloadLens :
        AppendRecord(table, payload_len)

SpecSegment == Init /\ [][NextSegment]_vars

PageOf(offset) == offset \div DISKTABLE_PAGE_SIZE

find_record(ts, table, position) ==
    LET files == ts.bytes[table]
        file == files[position.segment_id]
        at == position.offset
        size_header == FromBeBytes(SubSeq(file, at + 2, at + 5))
    IN IF position.segment_id < 1 \/ position.segment_id > Len(files)
       THEN [ok |-> FALSE]
       ELSE IF at + TABLE_SEGMENT_RECORD_HEADER_SIZE > Len(file)
       THEN [ok |-> FALSE]
       ELSE IF at + TABLE_SEGMENT_RECORD_HEADER_SIZE + size_header > Len(file)
       THEN [ok |-> FALSE]
       ELSE [ok |-> TRUE, flag |-> file[at + 1],
             payload |-> SubSeq(file, at + 6, at + 5 + size_header)]

\* A faulty variant of mark_deleted_record: the flag is written one byte on.
mark_deleted_record_late(ts, table, position) ==
    [ts EXCEPT !.bytes[table][position.segment_id] =
        WriteAt(@, position.offset + 1, <<FlagDeleted>>)]

\* TableSegmentManager::mark_deleted_record: seek(offset), write_u8(FlagDeleted)
mark_deleted_record_at(ts, table, position) ==
    [ts EXCEPT !.bytes[table][position.segment_id] =
        WriteAt(@, position.offset, <<FlagDeleted>>)]

\* describe_segment_file, lines 309-363: from `offset` on, one frame after
\* the other up to a flag of FlagNothing or the end of the file; -1 for a flag
\* that is none of FlagNothing, FlagAlive, FlagDeleted
RECURSIVE WalkFrames(_, _)
WalkFrames(file, offset) ==
    IF offset >= Len(file) THEN offset
    ELSE IF file[offset + 1] = FlagNothing THEN offset
    ELSE IF file[offset + 1] \notin {FlagAlive, FlagDeleted} THEN -1
    ELSE IF offset + TABLE_SEGMENT_RECORD_HEADER_SIZE > Len(file) THEN -1
    ELSE WalkFrames(file, offset + TABLE_SEGMENT_RECORD_HEADER_SIZE
                              + FromBeBytes(SubSeq(file, offset + 2, offset + 5)))

\* A faulty variant of describe_segment_file: the frames of the last page
\* are not walked.
describe_segment_file_unwalked(file, segment_id) ==
    [ok |-> Len(file) >= DISKTABLE_PAGE_SIZE,
     state |-> [last_segment_id |-> segment_id,
                segment_file_size |-> Len(file),
                current_page_index |-> Len(file) \div DISKTABLE_PAGE_SIZE - 1,
                current_page_offset |-> Len(file) - DISKTABLE_PAGE_SIZE]]

\* TableSegmentManager::describe_segment_file: [ok, state]
describe_segment_file(file, segment_id) ==
    LET file_size == Len(file)
        offset == WalkFrames(file, file_size - DISKTABLE_PAGE_SIZE)
    IN IF file_size < DISKTABLE_PAGE_SIZE \/ offset < 0
       THEN [ok |-> FALSE, state |-> TableSegmentStateDefault]
       ELSE [ok |-> TRUE,
             state |-> [last_segment_id |-> segment_id,
                        segment_file_size |-> file_size,
                        current_page_index |-> file_size \div DISKTABLE_PAGE_SIZE - 1,
                        current_page_offset |-> offset]]

\* TableSegmentManager::set_table_names for one table: [ok, state]
set_table_names(ts, table) ==
    LET last_segment_id == Len(ts.bytes[table])
    IN IF last_segment_id = 0 THEN [ok |-> TRUE, state |-> TableSegmentStateDefault]
       ELSE describe_segment_file(ts.bytes[table][last_segment_id],
                                  last_segment_id)

\* the position append_record returned for the n-th record of the table
PositionOf(table, n) ==
    [segment_id |-> table_segment.frames[table][n].segment_id,
     offset |-> table_segment.frames[table][n].offset]

MaxRecordAppends == 5
MaxMarks == 2

SegmentOthers ==
    <<state_file, wal_files, disk_records, disk_index, wal_state, mapped,
      mem_vars, pc, local, bridge, up, run, btree_index, tree_run, write_tasks,
      try_lock>>

\* append_record, with the outcome of the last mark_deleted_record no
\* longer on view
AppendAnother(table, payload_len) ==
    /\ Len(table_segment.frames[table]) < MaxRecordAppends
    /\ table_segment' =
          [append_record(table_segment, table, payload_len).ts
              EXCEPT !.last_mark = [called |-> FALSE]]
    /\ UNCHANGED SegmentOthers

\* mark_deleted_record for a position that append_record returned; the
\* manager before the call is kept
MarkDeletedRecord(table, n) ==
    /\ n \in 1 .. Len(table_segment.frames[table])
    /\ Cardinality(table_segment.marked[table] \cup {n}) <= MaxMarks
    /\ table_segment' =
          [mark_deleted_record_at(table_segment, table, PositionOf(table, n))
              EXCEPT !.marked[table] = @ \cup {n},
                     !.last_mark = [called |-> TRUE, table |-> table, n |-> n,
                                    again |-> n \in table_segment.marked[table],
                                    before |-> [table_segment EXCEPT
                                                   !.last_mark = [called |-> FALSE]]]]
    /\ UNCHANGED SegmentOthers

\* A new process: TableSegmentManager::new, then set_table_names over the
\* segment files on disk
RestartSegments ==
    /\ ~table_segment.restarted
    /\ \A table \in Tables : set_table_names(table_segment, table).ok
    /\ table_segment' =
          [table_segment EXCEPT
              !.tables_map = [table \in Tables |->
                                 set_table_names(table_segment, table).state],
              !.restarted = TRUE,
              !.last_mark = [called |-> FALSE]]
    /\ UNCHANGED SegmentOthers

NextRecords ==
    \/ \E table \in Tables, payload_len \in PayloadLens :
          AppendAnother(table, payload_len)
    \/ \E table \in Tables, n \in 1 .. MaxRecordAppends :
          MarkDeletedRecord(table, n)
    \/ RestartSegments

SpecRecords == Init /\ [][NextRecords]_vars

C32_MarkDeletedChangesTheFlagOnly ==
    table_segment.last_mark.called
    => LET before == table_segment.last_mark.before
           table == table_segment.last_mark.table
           p == PositionOf(table, table_segment.last_mark.n)
           found == find_record(table_segment, table, p)
       IN /\ found.ok
          /\ found.flag = FlagDeleted
          /\ found.payload = find_record(before, table, p).payload
          /\ table_segment.tables_map = before.tables_map
          /\ \A t \in Tables :
                /\ Len(table_segment.bytes[t]) = Len(before.bytes[t])
                /\ \A id \in 1 .. Len(before.bytes[t]) :
                      /\ Len(table_segment.bytes[t][id]) = Len(before.bytes[t][id])
                      /\ \A i \in 1 .. Len(before.bytes[t][id]) :
                            \/ table_segment.bytes[t][id][i] = before.bytes[t][id][i]
                            \/ /\ t = table /\ id = p.segment_id
                               /\ i = p.offset + 1
          /\ mark_deleted_record_at(table_segment, table, p).bytes
                = table_segment.bytes
          /\ table_segment.last_mark.again
                => table_segment.bytes = before.bytes

\* C32: a record between two others was marked deleted, and marked again
C32_Witness ==
    /\ table_segment.last_mark.called
    /\ table_segment.last_mark.again
    /\ table_segment.last_mark.n > 1
    /\ table_segment.last_mark.n
          < Len(table_segment.frames[table_segment.last_mark.table])

(***************************************************************************)
(* BTreeIndex with every key inserted at most once.                        *)
(***************************************************************************)
MaxDistinctInserts == 6
DistinctKeys == {"a", "b", "c", "d", "e", "f"}

\* the keys of the inserts made so far
CalledKeys == {tree_run.calls[i].key : i \in 1 .. Len(tree_run.calls)}

\* index.insert(key, position) for a key not inserted before
BTreeInsertNew(key) ==
    /\ tree_run.initialized = "ok"
    /\ Len(tree_run.calls) < MaxDistinctInserts
    /\ key \notin CalledKeys
    /\ \E o \in insert(btree_index, key, Len(tree_run.calls) + 1) :
          /\ btree_index' = o.ix
          /\ tree_run' = [tree_run EXCEPT !.calls =
                 Append(@, [key |-> key, position |-> Len(tree_run.calls) + 1,
                            ok |-> o.ok])]
    /\ UNCHANGED <<state_file, wal_files, disk_records, disk_index, wal_state,
                   mapped, mem_vars, pc, local, bridge, up, run, write_tasks,
                   try_lock, table_segment>>

NextDistinct ==
    \/ BTreeInitialize
    \/ \E key \in DistinctKeys : BTreeInsertNew(key)

SpecDistinct == InitTree /\ [][NextDistinct]_vars

\* the depth of the tree below the node at `pos`: 1 for a leaf
RECURSIVE Depth(_, _)
Depth(ix, pos) ==
    LET r == read_node(ix, pos)
    IN IF ~r.ok \/ r.node.node_type = "Leaf" THEN 1
       ELSE 1 + Depth(ix, r.node.leftmost_child)

\* C33: after any sequence of inserts of keys that all differ, splits of
\* leaves, of internal nodes and of the root included, find gives for every
\* inserted key the position it was inserted with, and None for every other
\* key.
C33_DistinctKeysAreFound ==
    tree_run.initialized = "ok"
    => /\ AllInsertsOk
       /\ \A key \in DistinctKeys :
             find(btree_index, key) = LatestInserted(key)

\* C33: a tree of three levels: a leaf, an internal node and the root have
\* been split
C33_Witness ==
    /\ tree_run.initialized = "ok"
    /\ Len(tree_run.calls) >= 5
    /\ Depth(btree_index, btree_index.metadata.root_position) >= 3

(***************************************************************************)
(* BTreeIndex with deletes.                                                *)
(***************************************************************************)
MaxDeleteInserts == 4

\* index.delete(key); the index before the call is kept beside its outcome
BTreeDelete(key) ==
    /\ tree_run.initialized = "ok"
    /\ LET r == delete(btree_index, key)
       IN /\ btree_index' = r.ix
          /\ tree_run' = [tree_run EXCEPT !.last_delete =
                 [called |-> TRUE, key |-> key, ok |-> r.ok,
                  before |-> btree_index]]
    /\ UNCHANGED <<state_file, wal_files, disk_records, disk_index, wal_state,
                   mapped, mem_vars, pc, local, bridge, up, run, write_tasks,
                   try_lock, table_segment>>

\* an insert after a delete: the outcome of the delete is no longer on view
BTreeInsertAfter(key) ==
    /\ Len(tree_run.calls) < MaxDeleteInserts
    /\ tree_run.initialized = "ok"
    /\ \E o \in insert(btree_index, key, Len(tree_run.calls) + 1) :
          /\ btree_index' = o.ix
          /\ tree_run' = [tree_run EXCEPT
                 !.calls = Append(@, [key |-> key,
                                      position |-> Len(tree_run.calls) + 1,
                                      ok |-> o.ok]),
                 !.last_delete = NoDelete]
    /\ UNCHANGED <<state_file, wal_files, disk_records, disk_index, wal_state,
                   mapped, mem_vars, pc, local, bridge, up, run, write_tasks,
                   try_lock, table_segment>>

NextDelete ==
    \/ BTreeInitialize
    \/ \E key \in TreeKeys : BTreeInsertAfter(key)
    \/ \E key \in TreeKeys : BTreeDelete(key)

SpecDelete == InitTree /\ [][NextDelete]_vars

\* the delete just made found nothing to remove
DeleteOfAbsent ==
    /\ tree_run.last_delete.called
    /\ find(tree_run.last_delete.before, tree_run.last_delete.key) = 0

\* C34 (first part): after delete(k), find(k) is None
C34_DeletedKeyIsGone ==
    tree_run.last_delete.called
    => /\ tree_run.last_delete.ok
       /\ find(btree_index, tree_run.last_delete.key) = 0

\* C34 (second part): delete(k) leaves find(k') as it was for every other
\* key, frees and moves no node and leaves the metadata, next_offset
\* included, as it was; a delete of an absent key, or on an empty tree,
\* succeeds and changes nothing at all.
C34_DeleteTouchesNothingElse ==
    tree_run.last_delete.called
    => LET before == tree_run.last_delete.before
           key == tree_run.last_delete.key
       IN /\ tree_run.last_delete.ok
          /\ \A other \in TreeKeys \ {key} :
                find(btree_index, other) = find(before, other)
          /\ btree_index.metadata = before.metadata
          /\ btree_index.metadata_file = before.metadata_file
          /\ Len(btree_index.blocks) = Len(before.blocks)
          /\ \A b \in 1 .. Len(before.blocks) :
                \/ btree_index.blocks[b] = before.blocks[b]
                \/ /\ before.blocks[b].node_type = "Leaf"
                   /\ btree_index.blocks[b] =
                          [before.blocks[b] EXCEPT !.leaf_entries =
                              btree_index.blocks[b].leaf_entries]
                   /\ Len(btree_index.blocks[b].leaf_entries)
                          = Len(before.blocks[b].leaf_entries) - 1
          /\ DeleteOfAbsent => btree_index = before

\* C34: a key of a tree of two levels was deleted
C34_Witness ==
    /\ tree_run.last_delete.called
    /\ tree_run.last_delete.ok
    /\ find(tree_run.last_delete.before, tree_run.last_delete.key) > 0
    /\ Depth(btree_index, btree_index.metadata.root_position) >= 2

\* C34: a delete on an empty tree
C34_WitnessEmpty ==
    /\ tree_run.last_delete.called
    /\ tree_run.last_delete.before.metadata.root_position = NoPosition

(***************************************************************************)
(* BTreeIndex opened again over the files an earlier run left.             *)
(***************************************************************************)
MaxReopenInserts == 4

\* index.insert(key, position), with the block count kept small
BTreeInsertOnce(key) ==
    /\ Len(tree_run.calls) < MaxReopenInserts
    /\ BTreeInsertNew(key)

\* IndexManager::get_or_create_index in a new process: BTreeIndex::new,
\* then initialize over the files on disk; the index before and after is
\* kept
BTreeReopen ==
    /\ tree_run.initialized = "ok"
    /\ ~tree_run.reopened.called
    /\ LET r == initialize_index([btree_index EXCEPT
                                     !.metadata = BTreeMetadataDefault])
       IN /\ btree_index' = r.ix
          /\ tree_run' = [tree_run EXCEPT
                 !.initialized = IF r.ok THEN "ok" ELSE "err",
                 !.reopened = [called |-> TRUE, before |-> btree_index,
                               after |-> r.ix]]
    /\ UNCHANGED <<state_file, wal_files, disk_records, disk_index, wal_state,
                   mapped, mem_vars, pc, local, bridge, up, run, write_tasks,
                   try_lock, table_segment>>

NextReopen ==
    \/ BTreeInitialize
    \/ \E key \in DistinctKeys : BTreeInsertOnce(key)
    \/ BTreeReopen

SpecReopen == InitTree /\ [][NextReopen]_vars

\* the index at the reopen: produced by successful inserts, metadata
\* persisted
ReopenedSound ==
    /\ tree_run.reopened.called
    /\ tree_run.reopened.before.metadata
          = tree_run.reopened.before.metadata_file

\* C40: initialize over an index produced by successful inserts, with its
\* metadata persisted, loads the metadata unchanged, deletes no index file
\* and still finds every inserted key, also when next_offset is an exact
\* multiple of INDEX_SEGMENT_SIZE.
C40_GoodIndexIsKept ==
    ReopenedSound
    => LET before == tree_run.reopened.before
           after == tree_run.reopened.after
       IN /\ tree_run.initialized = "ok"
          /\ after.metadata = before.metadata_file
          /\ after.metadata_file = before.metadata_file
          /\ after.blocks = before.blocks
          /\ \A key \in DistinctKeys : find(after, key) = find(before, key)

\* C40: the same, for an index whose next_offset is not an exact multiple
\* of INDEX_SEGMENT_SIZE
C40_GoodIndexIsKeptOffBoundary ==
    (/\ ReopenedSound
     /\ tree_run.reopened.before.metadata.next_offset % INDEX_SEGMENT_SIZE # 0)
    => LET before == tree_run.reopened.before
           after == tree_run.reopened.after
       IN /\ after.metadata = before.metadata_file
          /\ after.blocks = before.blocks
          /\ \A key \in DistinctKeys : find(after, key) = find(before, key)

(***************************************************************************)
(* BTreeIndex::find beside an insert: IndexManager hands the same          *)
(* BTreeIndex to every caller, and find and insert hold the metadata lock  *)
(* only while they read root_position, so the reads of a find fall         *)
(* between the writes of an insert.                                        *)
(***************************************************************************)
MaxAloneInserts == 3

\* insert_into_node on a leaf and split_leaf_node, write by write: the
\* index after each write_node and update_node, and the split handed up
LeafWrites(ix, node_pos, key, position) ==
    LET node == read_node(ix, node_pos).node
        place == CHOOSE pl \in InsertPlaces(node.leaf_entries, key) : TRUE
        filled == [node EXCEPT !.leaf_entries =
                      InsertAt(@, place, [key |-> key, position |-> position])]
        mid == Len(filled.leaf_entries) \div 2
        new_node == [new_leaf EXCEPT
                        !.leaf_entries = SubSeq(filled.leaf_entries, mid + 1,
                                                Len(filled.leaf_entries)),
                        !.parent = filled.parent]
        left == [filled EXCEPT !.leaf_entries = SubSeq(filled.leaf_entries, 1, mid)]
        w == write_node(ix, new_node)
        u == update_node(w.ix, node_pos, left)
    IN IF ~is_full(filled, ix.metadata.order)
       THEN [writes |-> <<update_node(ix, node_pos, filled).ix>>,
             split |-> NoSplit]
       ELSE [writes |-> <<w.ix, u.ix>>,
             split |-> <<filled.leaf_entries[mid + 1].key, w.position>>]

\* BTreeIndex::insert, write by write, for a root that is a leaf or whose
\* children are leaves and that has room for one more separator
InsertWrites(ix, key, position) ==
    LET root_pos == ix.metadata.root_position
        root == read_node(ix, root_pos).node
    IN IF root.node_type = "Leaf"
       THEN LET below == LeafWrites(ix, root_pos, key, position)
                split_at == Last(below.writes)
                new_root == [new_internal EXCEPT
                                !.leftmost_child = root_pos,
                                !.internal_entries =
                                    <<[key |-> below.split[1],
                                       child_position |-> below.split[2]]>>]
                w == write_node(split_at, new_root)
                p1 == SetParent(w.ix, root_pos, w.position)
                p2 == SetParent(p1.ix, below.split[2], w.position)
            IN IF below.split = NoSplit THEN below.writes
               ELSE below.writes \o
                    <<w.ix, p1.ix, p2.ix,
                      save_metadata([p2.ix EXCEPT !.metadata.root_position =
                                                     w.position])>>
       ELSE LET below == LeafWrites(ix, ChildFor(root, key), key, position)
                split_at == Last(below.writes)
                p == SetParent(split_at, below.split[2], root_pos)
                filled == [root EXCEPT !.internal_entries =
                              InsertAt(@, SeparatorsPassed(@, key) + 1,
                                       [key |-> below.split[1],
                                        child_position |-> below.split[2]])]
            IN IF below.split = NoSplit THEN below.writes
               ELSE below.writes \o <<p.ix, update_node(p.ix, root_pos, filled).ix>>

\* the insert written out write by write is within the cases of
\* InsertWrites: a tree of one or two levels whose root is not split
WrittenOut(ix, key) ==
    /\ ix.metadata.root_position # NoPosition
    /\ Depth(ix, ix.metadata.root_position) <= 2
    /\ \A o \in insert(ix, key, 0) :
          /\ o.ok
          /\ Depth(o.ix, o.ix.metadata.root_position)
                = IF Depth(ix, ix.metadata.root_position) = 1
                  THEN Depth(o.ix, o.ix.metadata.root_position) ELSE 2

ConcurrentOthers ==
    <<state_file, wal_files, disk_records, disk_index, wal_state, mapped,
      mem_vars, pc, local, bridge, up, run, write_tasks, try_lock,
      table_segment>>

\* index.insert(key, position) with no other call under way
BTreeInsertAlone(key) ==
    /\ ~tree_run.writer.called
    /\ ~tree_run.finder.called
    /\ Len(tree_run.calls) < MaxAloneInserts
    /\ BTreeInsertNew(key)

\* insert(key, position) starts: root_position and order are read under
\* the metadata lock; the writes to come are those of InsertWrites
InsertBegin(key) ==
    /\ tree_run.initialized = "ok"
    /\ ~tree_run.writer.called
    /\ key \notin CalledKeys
    /\ WrittenOut(btree_index, key)
    /\ tree_run' = [tree_run EXCEPT !.writer =
           [called |-> TRUE, key |-> key, done |-> FALSE,
            position |-> Len(tree_run.calls) + 1,
            writes |-> InsertWrites(btree_index, key, Len(tree_run.calls) + 1)]]
    /\ UNCHANGED <<btree_index, ConcurrentOthers>>

\* the next write_node or update_node of the insert; after the last one
\* the insert returns Ok
InsertStep ==
    /\ tree_run.writer.called
    /\ ~tree_run.writer.done
    /\ btree_index' = Head(tree_run.writer.writes)
    /\ tree_run' =
          IF Len(tree_run.writer.writes) > 1
          THEN [tree_run EXCEPT !.writer.writes = Tail(@)]
          ELSE [tree_run EXCEPT
                   !.writer.writes = <<>>,
                   !.writer.done = TRUE,
                   !.calls = Append(@, [key |-> tree_run.writer.key,
                                        position |-> tree_run.writer.position,
                                        ok |-> TRUE])]
    /\ UNCHANGED ConcurrentOthers

NotYet == -2            \* the find has not returned

\* find(key) starts: root_position is read under the metadata lock; what
\* the inserts that returned before gave the key is kept
FindBegin(key) ==
    /\ tree_run.initialized = "ok"
    /\ ~tree_run.finder.called
    /\ tree_run' = [tree_run EXCEPT !.finder =
           [called |-> TRUE, key |-> key,
            inserted |-> LatestInserted(key),
            beside |-> tree_run.writer.called /\ ~tree_run.writer.done,
            node_pos |-> btree_index.metadata.root_position,
            result |-> IF btree_index.metadata.root_position = NoPosition
                       THEN 0 ELSE NotYet]]
    /\ UNCHANGED <<btree_index, ConcurrentOthers>>

\* find_in_node: one read_node, then the leaf is searched or the child to
\* read next is chosen
FindStep ==
    /\ tree_run.finder.called
    /\ tree_run.finder.result = NotYet
    /\ LET r == read_node(btree_index, tree_run.finder.node_pos)
           key == tree_run.finder.key
       IN tree_run' =
             IF ~r.ok THEN [tree_run EXCEPT !.finder.result = FindError]
             ELSE IF r.node.node_type = "Leaf"
             THEN [tree_run EXCEPT !.finder.result =
                      IndexFind(r.node.leaf_entries, key)]
             ELSE IF r.node.leftmost_child = NoPosition
             THEN [tree_run EXCEPT !.finder.result = FindError]
             ELSE [tree_run EXCEPT !.finder.node_pos = ChildFor(r.node, key)]
    /\ UNCHANGED <<btree_index, ConcurrentOthers>>

NextConcurrent ==
    \/ BTreeInitialize
    \/ \E key \in DistinctKeys : BTreeInsertAlone(key)
    \/ \E key \in DistinctKeys : InsertBegin(key)
    \/ InsertStep
    \/ \E key \in DistinctKeys : FindBegin(key)
    \/ FindStep

SpecConcurrent == InitTree /\ [][NextConcurrent]_vars

\* the insert written out write by write ends where insert ends
InsertWritesAreInsert ==
    [][\A key \in DistinctKeys :
          InsertBegin(key)
          => \E o \in insert(btree_index, key, Len(tree_run.calls) + 1) :
                o.ix = Last(tree_run'.writer.writes)]_vars

\* C37: a find(k) for a key inserted before the find started returns k's
\* position, also when it runs beside an insert of another key that is
\* splitting the leaf, or the root, that holds k.
C37_FindBesideInsert ==
    (/\ tree_run.finder.called
     /\ tree_run.finder.result # NotYet
     /\ tree_run.finder.inserted > 0
     /\ tree_run.writer.called => tree_run.writer.key # tree_run.finder.key)
    => tree_run.finder.result = tree_run.finder.inserted

(***************************************************************************)
(* The rotation test of WALManager::append.                                *)
(***************************************************************************)
\* C38: the rotation test of append takes in the whole frame (the header
\* of four bytes and the payload as encoded): an append of a Put or Delete
\* record whose frame fits in an empty segment either rotates or finds room
\* for its frame in the current segment, and after a rotation the frame is
\* written; append never fails for lack of room.
C38_RotationTestCoversTheFrame ==
    [][(up /\ up') =>
          /\ run.appends' = run.appends + 1
                => \/ wal_state'.last_segment_id # wal_state.last_segment_id
                   \/ run.log' # run.log
          /\ \A t \in Threads :
                (pc[t] = "append_write" /\ pc'[t] # "append_write")
                    => run.log' # run.log]_vars

\* C38: the test of append and the frame written differ for a Put record
\* and agree for a Delete record
RotationTestMatchesFrame ==
    \A r \in WALRecordShapes :
        (RecordSize(r) = WAL_RECORD_HEADER_SIZE + EncodedLen(r))
            <=> (r.record_type = "Delete")

\* C39: memtable_current_size never wraps below zero: whenever put takes
\* the length of the value it replaced off the counter, the counter is at
\* least that large, also when trigger_flush has stored 0 in between.
C39_SizeNeverWraps ==
    [][\A t \in Threads :
          (up /\ up' /\ pc[t] = "put_sub" /\ pc'[t] # "put_sub")
              => memtable_current_size >= local[t].old_size]_vars

(***************************************************************************)
(* DBEngine with tables created and deleted: one client, every call run to *)
(* its end, then a crash and DBEngine::initialize.  The tables on disk are *)
(* the domain of disk_records (one .json file each), the tables in memory  *)
(* the domain of memtable_map.                                             *)
(***************************************************************************)
TableNames == {"t", "u"}

\* WALManager::append run to its end: the rotation, then the write
WholeAppend(ws, files, m, record) ==
    IF NeedNewSegment(ws, record)
    THEN LET rot == new_segment_file(ws, files)
         IN [res |-> append_write(rot.wal_state, rot.wal_files, rot.mapped, record),
             mapped |-> rot.mapped]
    ELSE [res |-> append_write(ws, files, m, record), mapped |-> m]

\* DiskTableManager::list_tables, MemtableManager::new and load_table_list
MemtableManagerFor(tables) ==
    [memtables |-> [i \in 1 .. Cardinality(tables) |-> HashMemtableNew],
     memtable_map |-> [t \in tables |-> IF t = "t" THEN 1 ELSE Cardinality(tables)],
     flushing_memtable_map |-> EmptyMap,
     memtable_current_size |-> 0,
     channel |-> <<>>,
     failed |-> FALSE]

\* the outcomes of the replay in DBEngine::initialize over the files on disk
ReplayOutcomes ==
    UNION {{[ws |-> ws, m |-> m]
            : m \in ReplaySegments(MemtableManagerFor(DOMAIN disk_records),
                                   wal_files, ws, list_segment_files(wal_files))}
           : ws \in recover_state(state_file, wal_files)}

TablesOthers ==
    <<flushing_memtable_map, flushing_lock, block_write, pc, local, bridge,
      btree_index, tree_run, write_tasks, try_lock, table_segment>>

\* DBEngine::create_table: the disk table manager, which refuses a table
\* that exists, then the memtable manager
create_table(table) ==
    /\ up
    /\ table \notin DOMAIN disk_records
    /\ disk_records' = [t \in DOMAIN disk_records \cup {table} |->
                           IF t = table THEN <<>> ELSE disk_records[t]]
    /\ disk_index' = [t \in DOMAIN disk_index \cup {table} |->
                         IF t = table THEN <<>> ELSE disk_index[t]]
    /\ IF table \in DOMAIN memtable_map
       THEN UNCHANGED <<memtables, memtable_map>>
       ELSE LET used == {memtable_map[t] : t \in DOMAIN memtable_map}
                h == Min((1 .. Len(memtables) + 1) \ used)
            IN /\ memtables' = [i \in 1 .. Max({Len(memtables), h}) |->
                                   IF i = h THEN HashMemtableNew ELSE memtables[i]]
               /\ memtable_map' = [t \in DOMAIN memtable_map \cup {table} |->
                                      IF t = table THEN h ELSE memtable_map[t]]
    /\ UNCHANGED <<wal_vars, memtable_current_size, channel, up, run, TablesOthers>>

\* MemtableManager::delete_table, lines 138-150: the lengths of the values
\* the table held
Reclaimed(memtable) ==
    SumSeq([i \in 1 .. Cardinality(DOMAIN memtable) |->
               LET key == CHOOSE k \in DOMAIN memtable :
                              Cardinality({j \in DOMAIN memtable :
                                              KeyRank(j) < KeyRank(k)}) = i - 1
               IN IF memtable[key] = None THEN 0 ELSE ByteLen(memtable[key])])

\* DBEngine::delete_table: the table's files are removed, then its memtable
delete_table(table) ==
    /\ up
    /\ table \in DOMAIN disk_records \/ table \in DOMAIN memtable_map
    /\ disk_records' = [t \in DOMAIN disk_records \ {table} |-> disk_records[t]]
    /\ disk_index' = [t \in DOMAIN disk_index \ {table} |-> disk_index[t]]
    /\ memtable_map' = [t \in DOMAIN memtable_map \ {table} |-> memtable_map[t]]
    /\ memtable_current_size' =
          IF table \in DOMAIN memtable_map
             /\ Reclaimed(memtables[memtable_map[table]]) > 0
          THEN FetchSub(memtable_current_size,
                        Reclaimed(memtables[memtable_map[table]]))
          ELSE memtable_current_size
    /\ UNCHANGED <<wal_vars, memtables, channel, up, run, TablesOthers>>

\* DBEngine::put_value run to its end by one client, the memtable below its
\* hard limit: the record goes to the WAL, then put adds to the size and
\* looks the table up
PutValueWhole(table, key, value) ==
    /\ up
    /\ run.appends < MaxRecords
    /\ ~OverHardLimit(memtable_current_size, PutBytes(key, value))
    /\ LET a == WholeAppend(wal_state, wal_files, mapped,
                            WALRecord(0, "Put", table, key, value))
           added == NewSizeValue(memtable_current_size, PutBytes(key, value))
       IN /\ wal_state' = a.res.wal_state
          /\ wal_files' = a.res.wal_files
          /\ mapped' = a.mapped
          /\ run' = [run EXCEPT !.appends = @ + 1,
                                !.log = IF a.res.ok THEN Append(@, a.res.rec) ELSE @]
          /\ IF ~a.res.ok
             THEN UNCHANGED <<memtables, memtable_current_size>>
             ELSE IF table \notin DOMAIN memtable_map
             THEN /\ memtable_current_size' = added
                  /\ UNCHANGED memtables
             ELSE LET h == memtable_map[table]
                      old == HashMemtablePutOld(memtables[h], key)
                  IN /\ memtables' = [memtables EXCEPT ![h] =
                                         HashMemtablePut(@, key, value)]
                     /\ memtable_current_size' =
                           IF old >= 0 THEN FetchSub(added, old) ELSE added
    /\ UNCHANGED <<state_file, disk_records, disk_index, memtable_map, channel,
                   up, TablesOthers>>

\* DBEngine::delete_value run to its end by one client
DeleteValueWhole(table, key) ==
    /\ up
    /\ run.appends < MaxRecords
    /\ LET a == WholeAppend(wal_state, wal_files, mapped,
                            WALRecord(0, "Delete", table, key, None))
       IN /\ wal_state' = a.res.wal_state
          /\ wal_files' = a.res.wal_files
          /\ mapped' = a.mapped
          /\ run' = [run EXCEPT !.appends = @ + 1,
                                !.log = IF a.res.ok THEN Append(@, a.res.rec) ELSE @]
          /\ memtables' =
                IF a.res.ok /\ table \in DOMAIN memtable_map
                THEN [memtables EXCEPT ![memtable_map[table]] =
                         HashMemtableDelete(@, key)]
                ELSE memtables
    /\ UNCHANGED <<state_file, disk_records, disk_index, memtable_map,
                   memtable_current_size, channel, up, TablesOthers>>

\* the process is killed between two calls
TablesCrash ==
    /\ up
    /\ run.crashes < MaxCrashes
    /\ up' = FALSE
    /\ wal_state' = DefaultWALState
    /\ mapped' = 0
    /\ memtables' = <<>>
    /\ memtable_map' = EmptyMap
    /\ memtable_current_size' = 0
    /\ channel' = <<>>
    /\ run' = [run EXCEPT !.crashes = @ + 1]
    /\ UNCHANGED <<state_file, wal_files, disk_records, disk_index, TablesOthers>>

\* DBEngine::initialize returning Ok
TablesInitialize ==
    /\ ~up
    /\ \E o \in ReplayOutcomes :
          /\ wal_files[get_current_segment_file_name(o.ws)] # NoFile
          /\ ~o.m.failed
          /\ wal_state' = o.ws
          /\ state_file' = o.ws
          /\ mapped' = get_current_segment_file_name(o.ws)
          /\ memtables' = o.m.memtables
          /\ memtable_map' = o.m.memtable_map
          /\ memtable_current_size' = o.m.memtable_current_size
          /\ channel' = o.m.channel
    /\ up' = TRUE
    /\ UNCHANGED <<wal_files, disk_records, disk_index, run, TablesOthers>>

NextTables ==
    \/ \E table \in TableNames : create_table(table)
    \/ \E table \in TableNames : delete_table(table)
    \/ \E table \in TableNames, key \in {"a"}, value \in {"x"} :
          PutValueWhole(table, key, value)
    \/ \E table \in TableNames, key \in {"a"} : DeleteValueWhole(table, key)
    \/ TablesCrash
    \/ TablesInitialize

SpecTables == Init /\ [][NextTables]_vars

\* C35: after any sequence of create_table, put_value, delete_value and
\* delete_table and a crash, DBEngine::initialize succeeds: the records of
\* the WAL that name a table which exists no longer, or never did, are
\* passed over by the replay.
C35_InitializeSucceedsAfterCrash ==
    ~up => \E o \in ReplayOutcomes :
              /\ wal_files[get_current_segment_file_name(o.ws)] # NoFile
              /\ ~o.m.failed

\* C35: the same, when every Put record of the WAL names a table on disk
C35_InitializeSucceedsWithTables ==
    (/\ ~up
     /\ \A s \in list_segment_files(wal_files) :
           \A f \in wal_files[s].frames :
              f.rec.record_type = "Put" => f.rec.table \in DOMAIN disk_records)
    => \E o \in ReplayOutcomes :
          /\ wal_files[get_current_segment_file_name(o.ws)] # NoFile
          /\ ~o.m.failed

(***************************************************************************)
(* Two clients calling put_value and delete_value on one key at the same   *)
(* time, the memtable staying below its hard limit.  The lock of the WAL   *)
(* manager is held for the append only (db.rs 326-328, 355-357); the       *)
(* memtable is updated after it is released.                               *)
(***************************************************************************)
MaxPairCalls == 3
Pair == {"w1", "w2"}

\* DBEngine::put_value called by one of the two clients
PairPutValue(t, key, value) ==
    /\ t \in Pair
    /\ run.appends < MaxPairCalls
    /\ AppendBegin(t, WALRecord(0, "Put", "t", key, value), "put")

\* DBEngine::delete_value called by one of the two clients
PairDeleteValue(t, key) ==
    /\ t \in Pair
    /\ run.appends < MaxPairCalls
    /\ AppendBegin(t, WALRecord(0, "Delete", "t", key, None), "delete")

\* MemtableManager::put, lines 209-236, below the hard limit: the
\* compare-and-swap of memtable_current_size
PutSizeBelow(t) ==
    /\ pc[t] = "put_size"
    /\ ~OverHardLimit(memtable_current_size,
                      PutBytes(local[t].record.key, local[t].record.value))
    /\ PutSize(t)

NextPair ==
    \/ \E t \in Pair, value \in Values : PairPutValue(t, "a", value)
    \/ \E t \in Pair : PairDeleteValue(t, "a")
    \/ \E t \in Pair : AppendWrite(t)
    \/ \E t \in Pair : PutCheckBlocked(t)
    \/ \E t \in Pair : PutSizeBelow(t)
    \/ \E t \in Pair : PutGetMemtable(t)
    \/ \E t \in Pair : PutInsert(t)
    \/ \E t \in Pair : PutSub(t)
    \/ \E t \in Pair : DeleteCheckBlocked(t)
    \/ \E t \in Pair : DeleteApply(t)

SpecPair == Init /\ [][NextPair]_vars

\* what get_value would answer for the key from a memtable manager
ValueHeld(m_memtables, m_map, key) ==
    LET held == HashMemtableGet(m_memtables[m_map["t"]], key)
    IN IF held = Deleted THEN NotFound ELSE held

\* C36: when two put_value / delete_value calls on one key have run at the
\* same time and both have returned, the memtable holds the effect of the
\* call whose WAL record has the larger record_id: the value read now is the
\* value the replay of the WAL rebuilds after a crash.
C36_MemtableAgreesWithReplay ==
    (up /\ \A t \in Pair : Idle(t))
        => \A o \in ReplayOutcomes :
              ~o.m.failed
                  => ValueHeld(o.m.memtables, o.m.memtable_map, "a")
                        = ValueHeld(memtables, memtable_map, "a")
====
